---- MODULE Spec2Model ----
(***************************************************************************)
(* GoImageBoardArchiver: the archival orchestration engine.                *)
(*                                                                         *)
(* The module holds several specifications over one set of variables, one  *)
(* per part of the engine:                                                 *)
(*   SpecNeedsUpdate  the incremental update decision (NeedsUpdate)        *)
(*   SpecResume       the resume resolver (handleResumeLogic)              *)
(*   SpecThread       ExecuteTask over cycles with ArchiveSingleThread in  *)
(*                    full, for one catalog thread                         *)
(*   SpecDispatch     ExecuteTask's dispatch loop and its worker pool      *)
(*   SpecRun          the task pool of runCliMode and of startCoreEngine   *)
(*   SpecNet          network.Client: Get and the per-host limiters        *)
(* A specification leaves the variables of the other parts at their idle   *)
(* values.                                                                 *)
(***************************************************************************)
EXTENDS Integers, Naturals, Sequences, FiniteSets, TLC

(***************************************************************************)
(* Bounds of the model.                                                    *)
(***************************************************************************)
\* largest media count handed to NeedsUpdate, or held by a snapshot
MaxMediaCount == 4
\* number of media URLs the resume resolver meets; URL u has the original
\* file name u, or none
NumURLs == 2
\* number of media URLs a thread page of SpecThread can hold
MaxRemoteMedia == 2
\* number of discovery passes ExecuteTask makes in SpecThread
MaxCycles == 3
\* most target threads one dispatch loop is given
NumTargets == 5
\* largest max_concurrent_downloads setting tried (0 takes the default)
MaxConcurrentSetting == 2
\* most tasks a configuration of SpecRun holds
NumTasks == 2
\* largest global_max_concurrent_tasks setting tried (0 takes the default)
MaxGlobalSetting == 2
\* most manual-run goroutines of the tray engine alive at once
MaxBatches == 2
\* number of Get calls made in SpecNet
NumRequests == 3
\* number of clock ticks SpecNet lets pass
MaxTicks == 2
\* largest retryCount handed to downloadFile
MaxRetryCount == 2

VARIABLES
    \* --- SpecNeedsUpdate ---
    nuSnapshot,      \* the snapshot argument (exists = FALSE: nil)
    nuCount,         \* the currentMediaCount argument
    nuCalled,        \* NeedsUpdate has been applied to the arguments
    nuResult,        \* its result
    \* --- SpecResume ---
    rsEnabled,       \* task.EnableResumeSupport
    rsAllMedia,      \* allMediaFiles
    rsDisk,          \* file name -> "absent" | "empty" | "data", under img/
    rsResumeFile,    \* .resume.json
    rsBefore,        \* .resume.json as it was before the first invocation
    rsResults,       \* the lists returned by the invocations so far
    \* --- shared ---
    ctxDone,         \* ctx.Done() is closed: cancellation has been raised
    \* --- SpecThread: the task ---
    isWatchMode,     \* ExecuteTask's isWatchMode
    enableResume,    \* task.EnableResumeSupport
    minimumMediaCount, \* task.MinimumMediaCount
    titleMatches,    \* matchKeyword && !exclude for the thread's title
    taskPc,          \* "loop" | "dispatch" | "wait" | "returned"
    firstLoop,       \* ExecuteTask's firstLoop
    cycle,           \* discovery passes made so far
    watchIntervalMillis, \* task.WatchIntervalMillis
    sleptMillis,     \* the wait before the last discovery pass, 0 when there was none
    diskBelowSafety, \* the save root had less free space than safety_stop_min_disk_gb
                     \* at the head of the last pass
    discovery,       \* last pass: "none" | "skipped" | "error" | "empty" | "found"
    catalogListed,   \* the catalog of the last pass listed the thread
    \* --- SpecThread: the disk ---
    historyFile,     \* thread IDs in task.HistoryFilePath
    snapshotFile,    \* .snapshot.json of the thread directory
    dirsCreated,     \* the thread directory with img/, thumb/, css/ exists
    imgFiles,        \* original file names under img/ with a size above zero
    resumeFile,      \* .resume.json of the thread directory
    indexHtm,        \* media URLs rendered in index.htm ({} with written = FALSE: absent)
    \* --- SpecThread: the ArchiveSingleThread worker ---
    wPc,             \* "none" | "examine" | "prepare" | "download" | "persist" | "returned"
    outcome,         \* how the last run ended or branched
    mediaFiles,      \* the media list extracted in this run
    mediaCount,      \* len(mediaFiles), -1 when the run extracted none
    filesToDownload, \* the list handed to downloadMediaFiles
    dlIndex,         \* index i of downloadMediaFiles' loop
    effects,         \* what this run did to the disk and the network
    skippedByCancel, \* URLs whose download this run gave up because ctx was done
    archivedCycle,   \* the last cycle whose run persisted a snapshot, 0 if none
    \* --- SpecDispatch ---
    maxDownloadsSetting, \* task.MaxConcurrentDownloads
    targetCount,     \* len(targetThreads); the targets are 1..targetCount
    dispatchPc,      \* the dispatch loop: "check" | "acquire" | "wait" | "done"
    nextTarget,      \* index of the loop variable th
    threadSemaphore, \* slots taken in threadSemaphore
    threadWg,        \* counter of threadWg
    worker,          \* target -> "pending" | "fetch" | "fetching" | "download" |
                     \*           "downloading" | "ok" | "err"
    \* --- SpecRun: the task pool of one run of the program ---
    runMode,         \* "cli" (runCliMode) | "tray" (startCoreEngine) | "none"
    cliDefault,      \* the default written into the runCliMode that was built
    globalMaxSetting, \* cfg.GlobalMaxConcurrentTasks
    taskCount,       \* len(cfg.Tasks)
    cliPc,           \* runCliMode: "check" | "acquire" | "wait" | "done"
    cliNext,         \* index of runCliMode's loop variable task
    taskSemaphore,   \* slots taken in taskSemaphore
    cliWg,           \* counter of runCliMode's wg
    cliTask,         \* task -> "pending" | "running" | "exited" | "finished"
    enginePc,        \* startCoreEngine: "loop" | "stopWait" | "returned"
    isWatching,      \* startCoreEngine's isWatching
    isRunning,       \* startCoreEngine's isRunning
    watchTask,       \* task -> "none" | "running": the ExecuteTask of watch mode
    batch,           \* manual-run goroutine -> [pc, running]
    \* --- SpecNet: network.Client ---
    perDomainIntervals, \* settings.PerDomainIntervalMillis: host -> ms (0: none)
    now,             \* the clock, in ms
    client,          \* task -> [created, rateLimiters]: the Client of its ExecuteTask
    mutexHolder,     \* task -> the request holding its client's rateLimitersMutex, or 0
    \* --- SpecDownload: downloadFile for one file ---
    dfRetryCount,    \* the retryCount argument
    dfI,             \* the loop variable i
    dfPc,            \* "head" | "get" | "done"
    dfAttempts,      \* calls of client.Get made so far
    dfResponse,      \* what the last Get met: [transport, status], or NoResponse
    dfGet,           \* what the last Get returned: [body, err, StatusCode]
    dfRetryable,     \* IsRetryable() of the last HTTPError: "none" | TRUE | FALSE
    dfResult,        \* "running" | "ok" | "permanent" | "exhausted" | "cancelled"
    dfWritten,       \* destPath has been written
    \* --- SpecMedia: downloadMediaFiles and the rest of ArchiveSingleThread ---
    mdEnableResume,  \* task.EnableResumeSupport
    mdWritable,      \* the thread directory takes the writes of index.htm and the rest
    mdFiles,         \* filesToDownload
    mdNoThumb,       \* URLs of the items whose ThumbnailURL is empty
    mdI,             \* the loop variable i, counted from 1
    mdPc,            \* "none" | "full" | "thumb" | "rest" | "returned"
    mdImg,           \* URLs whose full-size downloadFile returned nil
    mdFailed,        \* URLs whose full-size downloadFile returned an error
    mdThumbTried,    \* URLs for whose thumbnail downloadFile was called
    mdThumb,         \* URLs whose thumbnail downloadFile returned nil
    mdResumeFile,    \* .resume.json
    mdResult,        \* "running" | "nil" | "error": what ArchiveSingleThread returns
    mdSaved,         \* index.htm and snapshot.json have been written
    \* --- SpecDiscover: primaryFiltering ---
    pfCatalog,       \* candidateThreads, as ParseCatalog returned them
    pfHistoryLines,  \* the lines of the history file
    pfSearchKeyword, \* task.SearchKeyword
    pfExcludeKeywords, \* task.ExcludeKeywords
    pfPc,            \* "none" | "fetch" | "loop" | "returned"
    pfI,             \* the position of the range loop in candidateThreads
    pfTargets,       \* targetThreads
    pfErr,           \* "none" | "nil" | "error"
    \* --- SpecReconcile: the markup step of ArchiveSingleThread over re-archives ---
    rcSnapshot,      \* the thread's snapshot file
    rcIndex,         \* index.htm
    rcFull,          \* archive_full.html
    rcPosts,         \* the post numbers of the thread page of the last archive
    rcReported,      \* the post numbers the last archive logged as deleted
    rcBranch,        \* how the last archive built the full markup:
                     \* "none" | "first" | "nofull" | "merged" | "failed"
    rcArchives,      \* archives made so far
    \* --- SpecVerify: verifyTask ---
    vfForce,         \* the force flag
    vfRepair,        \* the repair flag
    vfThread,        \* thread of the task history -> what the run finds of it:
                     \*   [lastVerified, dir, index, zeroTop, zeroMedia]
    vfPending,       \* threads the range loop has not come to yet
    vfResult,        \* the VerificationResult counters
    vfSkipped,       \* threads the loop left at the freshness block
    vfScanned,       \* threads whose directory was read for zero-byte files
    vfDetected,      \* thread -> zero-byte files the scan found
    vfRemoved,       \* thread -> zero-byte files the run removed
    vfRefreshed,     \* threads whose verification time was set to now
    vfPc,            \* "none" | "loop" | "returned"
    \* --- SpecCycle: the cycles of one ExecuteTask with its thread workers ---
    cyWatch,         \* isWatchMode
    cySetting,       \* task.MaxConcurrentDownloads
    cyTargets,       \* targetThreads of the current cycle, a sequence of thread IDs
    cyNext,          \* index of the next target the dispatch loop hands out
    cyWorker,        \* index of a target -> "pending" | "running" | "done"
    cySem,           \* slots of threadSemaphore taken
    cyWg,            \* counter of threadWg
    cyPc,            \* "none" | "disk" | "discover" | "dispatch" | "acquire" | "wait" |
                     \* "sleep" | "returned"
    cyCycle,         \* discovery passes made so far
    \* --- SpecFileName: the file name of a media item, saved and checked ---
    fnFormat,        \* task.FilenameFormat, a sequence of placeholders and characters
    fnThread,        \* the ThreadInfo of the run: [ID, year]
    fnMedia,         \* the MediaInfo: [OriginalFilename, ResNumber, URLBase]
    fnPc,            \* "none" | "download" | "resume" | "done"
    fnSavedAs,       \* the name under img/ the first run saved the item as
    fnCheckedAs,     \* the name the next run's handleResumeLogic looked for
    fnPending,       \* the next run put the item on its download list
    \* --- SpecCookie: Client.SetCookie and the cookies Client.Get sends ---
    ckJar,           \* the entries of the Client's cookie jar: [Name, Domain, HostOnly]
    ckSet,           \* [host, Name] of every SetCookie that returned nil: the host the
                     \* caller named and the cookie's name
    ckCalls,         \* calls of SetCookie and Get so far
    ckLast,          \* the last Get: [made, host, cookies, setBefore, response, result]
    \* --- SpecDirectory: the save directory of one thread over the cycles ---
    gdFormat,        \* task.DirectoryFormat, a sequence of placeholders and characters
    gdThread,        \* the thread as the catalog lists it: [ID, Title]
    gdNow,           \* the day the clock shows, an index into Calendar
    gdCycle,         \* cycles that archived the thread so far
    gdDir,           \* threadSavePath of the latest cycle, NoDir before the first
    gdPrevDir,       \* threadSavePath of the cycle before that
    gdWritten,       \* directories a snapshot, resume file and output were written to
    gdLoaded,        \* the latest cycle found the snapshot of the cycle before
    \* --- SpecCli: runCliMode with the ExecuteTask calls it starts ---
    cliWatch,        \* runCliMode's isWatch
    cliSetupFails,   \* tasks whose ExecuteTask fails in its set-up and returns at once
    cliSleeping,     \* running watch-mode tasks that wait for their next cycle
    \* --- SpecRunVerification: RunVerification over the configured tasks ---
    rvTarget,        \* targetTaskName: 0 for "", else the task asked for
    rvForce,         \* the force flag
    rvReadable,      \* the verification-history file can be read
    rvUnreadable,    \* tasks whose history file cannot be read
    rvProblem,       \* threads whose directory shows a problem
    rvFile,          \* the verification-history file: thread -> "none" | "old" | "now"
    rvHistory,       \* the verificationHistory map in memory
    rvI,             \* index of the task the loop over cfg.Tasks is at
    rvPending,       \* threads of the running verifyTask not yet come to
    rvPc,            \* "none" | "start" | "loop" | "task" | "returned"
    rvErrs,          \* tasks whose verifyTask returned an error
    rvProcessed,     \* tasks whose verifyTask has returned
    rvSaves,         \* calls of saveVerificationHistory so far
    rvRefreshed,     \* threads whose time a verifyTask set to now
    request          \* Get call -> [pc, client, host, limiter, timeToAct], pc being
                     \*             "idle" | "lock" | "wait" | "done"

nuVars == <<nuSnapshot, nuCount, nuCalled, nuResult>>
rsVars == <<rsEnabled, rsAllMedia, rsDisk, rsResumeFile, rsBefore, rsResults>>
taskVars == <<isWatchMode, enableResume, minimumMediaCount, titleMatches,
              taskPc, firstLoop, cycle, discovery, catalogListed,
              watchIntervalMillis, sleptMillis, diskBelowSafety>>
diskVars == <<historyFile, snapshotFile, dirsCreated, imgFiles, resumeFile, indexHtm>>
workerVars == <<wPc, outcome, mediaFiles, mediaCount, filesToDownload, dlIndex,
                effects, skippedByCancel, archivedCycle>>
thVars == <<taskVars, diskVars, workerVars>>
rnVars == <<runMode, cliDefault, globalMaxSetting, taskCount, cliPc, cliNext, taskSemaphore,
            cliWg, cliTask, enginePc, isWatching, isRunning, watchTask, batch>>
mdVars == <<mdEnableResume, mdWritable, mdFiles, mdNoThumb, mdI, mdPc, mdImg, mdFailed,
            mdThumbTried, mdThumb, mdResumeFile, mdResult, mdSaved>>
pfVars == <<pfCatalog, pfHistoryLines, pfSearchKeyword, pfExcludeKeywords, pfPc, pfI,
            pfTargets, pfErr>>
rcVars == <<rcSnapshot, rcIndex, rcFull, rcPosts, rcReported, rcBranch, rcArchives>>
cwVars == <<cliWatch, cliSetupFails, cliSleeping>>
gdVars == <<gdFormat, gdThread, gdNow, gdCycle, gdDir, gdPrevDir, gdWritten, gdLoaded>>
cyVars == <<cyWatch, cySetting, cyTargets, cyNext, cyWorker, cySem, cyWg, cyPc, cyCycle>>
fnVars == <<fnFormat, fnThread, fnMedia, fnPc, fnSavedAs, fnCheckedAs, fnPending>>
ckVars == <<ckJar, ckSet, ckCalls, ckLast>>
rvVars == <<rvTarget, rvForce, rvReadable, rvUnreadable, rvProblem, rvFile, rvHistory, rvI,
            rvPending, rvPc, rvErrs, rvProcessed, rvSaves, rvRefreshed>>
vfVars == <<vfForce, vfRepair, vfThread, vfPending, vfResult, vfSkipped, vfScanned,
            vfDetected, vfRemoved, vfRefreshed, vfPc>>
dfVars == <<dfRetryCount, dfI, dfPc, dfAttempts, dfResponse, dfGet, dfRetryable, dfResult,
            dfWritten>>
ntVars == <<perDomainIntervals, now, client, mutexHolder, request>>
dpVars == <<maxDownloadsSetting, targetCount, dispatchPc, nextTarget, threadSemaphore,
            threadWg, worker>>
vars == <<nuVars, rsVars, ctxDone, thVars, dpVars, rnVars, ntVars, dfVars, mdVars, pfVars, rcVars, vfVars, rvVars, ckVars, fnVars, cyVars, gdVars, cwVars>>

(***************************************************************************)
(* ThreadSnapshot and NeedsUpdate (internal/core/incremental.go).          *)
(***************************************************************************)
\* a nil *ThreadSnapshot: LoadThreadSnapshot found no .snapshot.json
NoSnapshot == [exists |-> FALSE, LastMediaCount |-> 0, IsComplete |-> FALSE]

ThreadSnapshot(count, complete) ==
    [exists |-> TRUE, LastMediaCount |-> count, IsComplete |-> complete]

\* every snapshot a .snapshot.json can hold, and the nil snapshot
Snapshots ==
    {NoSnapshot} \cup
    {ThreadSnapshot(c, b) : c \in (-1)..MaxMediaCount, b \in BOOLEAN}

\* mutant: the IsComplete test is missing
NeedsUpdateNoCompleteCheck(snapshot, currentMediaCount) ==
    IF ~snapshot.exists THEN TRUE
    ELSE currentMediaCount > snapshot.LastMediaCount

NeedsUpdate(snapshot, currentMediaCount) ==
    IF ~snapshot.exists THEN TRUE
    ELSE IF snapshot.IsComplete THEN FALSE
    ELSE IF currentMediaCount > snapshot.LastMediaCount THEN TRUE
    ELSE FALSE

(***************************************************************************)
(* MediaInfo, .resume.json and the resume resolver                         *)
(* (internal/core/thread_archiver.go).                                     *)
(***************************************************************************)
\* a media item: URL u, OriginalFilename f (0 is the empty string)
MediaInfo(u, f) == [URL |-> u, OriginalFilename |-> f]

MediaInfos ==
    {MediaInfo(u, 0) : u \in 1..NumURLs} \cup {MediaInfo(u, u) : u \in 1..NumURLs}

\* .resume.json: absent, unparseable, or the JSON array of a list
\* (json.MarshalIndent of a nil slice writes null, which reads back as the
\* empty list)
NoResumeFile == [exists |-> FALSE, parses |-> FALSE, list |-> <<>>]
CorruptResumeFile == [exists |-> TRUE, parses |-> FALSE, list |-> <<>>]
ResumeFileOf(list) == [exists |-> TRUE, parses |-> TRUE, list |-> list]

\* generateFileName with format "": an error (ok = FALSE) when the item has
\* no original file name, the original file name otherwise
generateFileNameEmptyFormat(media) ==
    IF media.OriginalFilename = 0
    THEN [ok |-> FALSE, name |-> 0]
    ELSE [ok |-> TRUE, name |-> media.OriginalFilename]

\* os.Stat(saveFilePath) succeeds and fileInfo.Size() > 0
ExistsNonEmpty(disk, name) == disk[name] = "data"

\* mutant: a zero-byte file counts as downloaded
MustDownloadIgnoringSize(disk, media) ==
    LET fn == generateFileNameEmptyFormat(media)
    IN  IF ~fn.ok THEN TRUE ELSE disk[fn.name] = "absent"

\* the test of handleResumeLogic's loop: the item goes to the download list
MustDownload(disk, media) ==
    LET fn == generateFileNameEmptyFormat(media)
    IN  IF ~fn.ok THEN TRUE ELSE ~ExistsNonEmpty(disk, fn.name)

RECURSIVE FilterDownload(_, _)
FilterDownload(disk, list) ==
    IF list = <<>> THEN <<>>
    ELSE LET rest == FilterDownload(disk, Tail(list))
         IN  IF MustDownload(disk, Head(list)) THEN <<Head(list)>> \o rest
             ELSE rest

\* mutant: the media of the page are checked whatever .resume.json holds
initialFilesFromPage(resume, allMediaFiles) == allMediaFiles

\* the list handleResumeLogic checks against the disk: the pending list of
\* .resume.json when that holds at least one item, allMediaFiles otherwise
initialFilesToCheck(resume, allMediaFiles) ==
    LET pendingFilesFromResume ==
            IF resume.exists /\ resume.parses THEN resume.list
            ELSE <<>>
    IN  IF Len(pendingFilesFromResume) > 0 THEN pendingFilesFromResume
        ELSE allMediaFiles

\* handleResumeLogic: the returned list and .resume.json afterwards
handleResumeLogic(enabled, resume, allMediaFiles, disk) ==
    IF ~enabled THEN [files |-> allMediaFiles, resume |-> resume]
    ELSE LET finalFilesToDownload ==
                 FilterDownload(disk, initialFilesToCheck(resume, allMediaFiles))
         IN  [files |-> finalFilesToDownload,
              resume |-> IF Len(finalFilesToDownload) > 0
                         THEN ResumeFileOf(finalFilesToDownload)
                         ELSE NoResumeFile]

(***************************************************************************)
(* Idle values: what a specification leaves the other parts at.            *)
(***************************************************************************)
NUIdle ==
    /\ nuSnapshot = NoSnapshot
    /\ nuCount = 0
    /\ nuCalled = FALSE
    /\ nuResult = FALSE

RSIdle ==
    /\ rsEnabled = FALSE
    /\ rsAllMedia = <<>>
    /\ rsDisk = [n \in 1..NumURLs |-> "absent"]
    /\ rsResumeFile = NoResumeFile
    /\ rsBefore = NoResumeFile
    /\ rsResults = <<>>

MDIdle ==
    /\ mdEnableResume = FALSE
    /\ mdWritable = FALSE
    /\ mdFiles = <<>>
    /\ mdNoThumb = {}
    /\ mdI = 0
    /\ mdPc = "none"
    /\ mdImg = {}
    /\ mdFailed = {}
    /\ mdThumbTried = {}
    /\ mdThumb = {}
    /\ mdResumeFile = NoResumeFile
    /\ mdResult = "running"
    /\ mdSaved = FALSE

PFIdle ==
    /\ pfCatalog = <<>>
    /\ pfHistoryLines = <<>>
    /\ pfSearchKeyword = <<>>
    /\ pfExcludeKeywords = <<>>
    /\ pfPc = "none"
    /\ pfI = 0
    /\ pfTargets = <<>>
    /\ pfErr = "none"

\* a markup file: the post fragments of the page proper (by post number),
\* those inside the deleted-posts section, and whether that section is there
NoHTML == [exists |-> FALSE, posts |-> {}, deleted |-> {}, section |-> FALSE]

RCIdle ==
    /\ rcSnapshot = NoSnapshot
    /\ rcIndex = NoHTML
    /\ rcFull = NoHTML
    /\ rcPosts = {}
    /\ rcReported = {}
    /\ rcBranch = "none"
    /\ rcArchives = 0

CWIdle ==
    /\ cliWatch = FALSE
    /\ cliSetupFails = {}
    /\ cliSleeping = {}

\* the directory of a thread before its first cycle
NoDir == <<>>

GDIdle ==
    /\ gdFormat = <<>>
    /\ gdThread = [ID |-> <<>>, Title |-> <<>>]
    /\ gdNow = 1
    /\ gdCycle = 0
    /\ gdDir = NoDir
    /\ gdPrevDir = NoDir
    /\ gdWritten = {}
    /\ gdLoaded = FALSE

\* most links to threads one catalog page holds in SpecCycle
MaxLinks == 3

CYIdle ==
    /\ cyWatch = FALSE
    /\ cySetting = 0
    /\ cyTargets = <<>>
    /\ cyNext = 1
    /\ cyWorker = [i \in 1..MaxLinks |-> "pending"]
    /\ cySem = 0
    /\ cyWg = 0
    /\ cyPc = "none"
    /\ cyCycle = 0

FNIdle ==
    /\ fnFormat = <<>>
    /\ fnThread = [ID |-> <<>>, year |-> <<>>]
    /\ fnMedia = [OriginalFilename |-> <<>>, ResNumber |-> 0, URLBase |-> <<>>]
    /\ fnPc = "none"
    /\ fnSavedAs = <<>>
    /\ fnCheckedAs = <<>>
    /\ fnPending = FALSE

NoGet ==
    [made |-> FALSE, host |-> <<>>, cookies |-> {}, setBefore |-> {},
     response |-> [transport |-> "senderr", status |-> 0],
     result |-> [body |-> FALSE, err |-> "other", StatusCode |-> 0]]

CKIdle ==
    /\ ckJar = {}
    /\ ckSet = {}
    /\ ckCalls = 0
    /\ ckLast = NoGet

\* the tasks of cfg.Tasks in RunVerification, and the threads each history
\* file names
NumVerifyTasks == 2
RVTasks == 1..NumVerifyTasks
RVThreadsOf(task) == {<<task, 1>>, <<task, 2>>}
RVThreads == UNION {RVThreadsOf(task) : task \in RVTasks}

RVIdle ==
    /\ rvTarget = 0
    /\ rvForce = FALSE
    /\ rvReadable = FALSE
    /\ rvUnreadable = {}
    /\ rvProblem = {}
    /\ rvFile = [t \in RVThreads |-> "none"]
    /\ rvHistory = [t \in RVThreads |-> "none"]
    /\ rvI = 0
    /\ rvPending = {}
    /\ rvPc = "none"
    /\ rvErrs = {}
    /\ rvProcessed = {}
    /\ rvSaves = 0
    /\ rvRefreshed = {}

VerifyThreads == {"t1", "t2"}
NoResult == [TotalChecked |-> 0, TotalMissing |-> 0, TotalRepaired |-> 0, TotalFailed |-> 0]
NoThreadState ==
    [lastVerified |-> -1, dir |-> FALSE, index |-> FALSE, zeroTop |-> 0, zeroMedia |-> 0]

VFIdle ==
    /\ vfForce = FALSE
    /\ vfRepair = FALSE
    /\ vfThread = [t \in VerifyThreads |-> NoThreadState]
    /\ vfPending = {}
    /\ vfResult = NoResult
    /\ vfSkipped = {}
    /\ vfScanned = {}
    /\ vfDetected = [t \in VerifyThreads |-> 0]
    /\ vfRemoved = [t \in VerifyThreads |-> 0]
    /\ vfRefreshed = {}
    /\ vfPc = "none"

NoIndex == [written |-> FALSE, media |-> {}]

THIdle ==
    /\ isWatchMode = FALSE
    /\ enableResume = FALSE
    /\ minimumMediaCount = 0
    /\ titleMatches = FALSE
    /\ watchIntervalMillis = 0
    /\ sleptMillis = 0
    /\ diskBelowSafety = FALSE
    /\ taskPc = "returned"
    /\ firstLoop = TRUE
    /\ cycle = 0
    /\ discovery = "none"
    /\ catalogListed = FALSE
    /\ historyFile = {}
    /\ snapshotFile = NoSnapshot
    /\ dirsCreated = FALSE
    /\ imgFiles = {}
    /\ resumeFile = NoResumeFile
    /\ indexHtm = NoIndex
    /\ wPc = "none"
    /\ outcome = "none"
    /\ mediaFiles = <<>>
    /\ mediaCount = -1
    /\ filesToDownload = <<>>
    /\ dlIndex = 0
    /\ effects = {}
    /\ skippedByCancel = {}
    /\ archivedCycle = 0

DPIdle ==
    /\ maxDownloadsSetting = 0
    /\ targetCount = 0
    /\ dispatchPc = "done"
    /\ nextTarget = 1
    /\ threadSemaphore = 0
    /\ threadWg = 0
    /\ worker = [t \in 1..NumTargets |-> "pending"]

\* the tasks of SpecNet, each with the Client its ExecuteTask makes
Clients == {"task1", "task2"}

\* the hosts requests go to
Hosts == {"img.example", "dat.example"}

NoRequest == [pc |-> "idle", client |-> "none", host |-> "none", limiter |-> 0,
              timeToAct |-> 0]

NoClient == [created |-> FALSE, rateLimiters |-> [h \in Hosts |-> <<>>]]

NoBatch == [pc |-> "free", running |-> {}]

RNIdle ==
    /\ runMode = "none"
    /\ cliDefault = 0
    /\ globalMaxSetting = 0
    /\ taskCount = 0
    /\ cliPc = "done"
    /\ cliNext = 1
    /\ taskSemaphore = 0
    /\ cliWg = 0
    /\ cliTask = [t \in 1..NumTasks |-> "pending"]
    /\ enginePc = "returned"
    /\ isWatching = FALSE
    /\ isRunning = FALSE
    /\ watchTask = [t \in 1..NumTasks |-> "none"]
    /\ batch = [b \in 1..MaxBatches |-> NoBatch]

NoResponse == [transport |-> "none", status |-> 0]

NoGetResult == [body |-> FALSE, err |-> "none", StatusCode |-> 0]

DFIdle ==
    /\ dfRetryCount = 0
    /\ dfI = 0
    /\ dfPc = "done"
    /\ dfAttempts = 0
    /\ dfResponse = NoResponse
    /\ dfGet = NoGetResult
    /\ dfRetryable = "none"
    /\ dfResult = "running"
    /\ dfWritten = FALSE

NTIdle ==
    /\ perDomainIntervals = [h \in Hosts |-> 0]
    /\ now = 0
    /\ client = [c \in Clients |-> NoClient]
    /\ mutexHolder = [c \in Clients |-> 0]
    /\ request = [r \in 1..NumRequests |-> NoRequest]

(***************************************************************************)
(* SpecNeedsUpdate: NeedsUpdate applied to every snapshot and count.           *)
(***************************************************************************)
InitNeedsUpdate ==
    /\ nuSnapshot \in Snapshots
    /\ nuCount \in 0..MaxMediaCount
    /\ nuCalled = FALSE
    /\ nuResult = FALSE
    /\ RSIdle
    /\ ctxDone = FALSE
    /\ THIdle
    /\ DPIdle
    /\ RNIdle
    /\ NTIdle
    /\ DFIdle
    /\ MDIdle
    /\ PFIdle
    /\ RCIdle
    /\ VFIdle
    /\ RVIdle
    /\ CKIdle
    /\ FNIdle
    /\ CYIdle
    /\ GDIdle
    /\ CWIdle
CallNeedsUpdate ==
    /\ ~nuCalled
    /\ nuResult' = NeedsUpdate(nuSnapshot, nuCount)
    /\ nuCalled' = TRUE
    /\ UNCHANGED <<nuSnapshot, nuCount, rsVars, ctxDone, thVars, dpVars, rnVars, ntVars, dfVars, mdVars, pfVars, rcVars, vfVars,
                   rvVars, ckVars, fnVars, cyVars, gdVars, cwVars>>

NextNeedsUpdate == CallNeedsUpdate

SpecNeedsUpdate == InitNeedsUpdate /\ [][NextNeedsUpdate]_vars

\* C1: for every snapshot s (absent or present) and every media count n,
\* NeedsUpdate(s, n) is true exactly when s is absent, or s is not marked
\* complete and n > s.LastMediaCount; it is true for every absent snapshot
\* and false for every complete one, whatever n is.
NeedsUpdateContract ==
    nuCalled =>
        /\ nuResult <=> (\/ ~nuSnapshot.exists
                         \/ (~nuSnapshot.IsComplete
                                /\ nuCount > nuSnapshot.LastMediaCount))
        /\ (~nuSnapshot.exists => nuResult)
        /\ (nuSnapshot.exists /\ nuSnapshot.IsComplete => ~nuResult)

\* a complete snapshot met with a larger media count: no update
NeedsUpdateCompleteWitness ==
    /\ nuCalled
    /\ nuSnapshot.exists
    /\ nuSnapshot.IsComplete
    /\ nuCount > nuSnapshot.LastMediaCount
    /\ ~nuResult

(***************************************************************************)
(* SpecResume: handleResumeLogic invoked repeatedly against one disk.      *)
(***************************************************************************)
\* the lists of at most n items over S
SeqsUpTo(S, n) == UNION {[1..k -> S] : k \in 0..n}

\* allMediaFiles as ExtractMediaFiles builds it, and the pending lists that
\* handleResumeLogic and updateResumeFile write from such lists: no URL twice
MediaLists ==
    {l \in SeqsUpTo(MediaInfos, NumURLs) :
        \A i, j \in 1..Len(l) : i # j => l[i].URL # l[j].URL}

InitResume ==
    /\ rsEnabled \in BOOLEAN
    /\ rsAllMedia \in MediaLists
    /\ rsDisk \in [1..NumURLs -> {"absent", "empty", "data"}]
    /\ rsResumeFile \in
          {NoResumeFile, CorruptResumeFile} \cup {ResumeFileOf(l) : l \in MediaLists}
    /\ rsBefore = rsResumeFile
    /\ rsResults = <<>>
    /\ NUIdle
    /\ ctxDone = FALSE
    /\ THIdle
    /\ DPIdle
    /\ RNIdle
    /\ NTIdle
    /\ DFIdle
    /\ MDIdle
    /\ PFIdle
    /\ RCIdle
    /\ VFIdle
    /\ RVIdle
    /\ CKIdle
    /\ FNIdle
    /\ CYIdle
    /\ GDIdle
    /\ CWIdle
\* one invocation of handleResumeLogic; the disk stays as it is
ResolveResume ==
    /\ Len(rsResults) < 2
    /\ LET r == handleResumeLogic(rsEnabled, rsResumeFile, rsAllMedia, rsDisk)
       IN  /\ rsResults' = Append(rsResults, r.files)
           /\ rsResumeFile' = r.resume
    /\ UNCHANGED <<rsEnabled, rsAllMedia, rsDisk, rsBefore, nuVars, ctxDone, thVars, dpVars, rnVars, ntVars, dfVars, mdVars, pfVars, rcVars, vfVars,
                   rvVars, ckVars, fnVars, cyVars, gdVars, cwVars>>

NextResume == ResolveResume

SpecResume == InitResume /\ [][NextResume]_vars

\* the item's file is not under img/ with a size above zero
NotOnDisk(media) ==
    ~(media.OriginalFilename # 0 /\ rsDisk[media.OriginalFilename] = "data")

\* .resume.json lists exactly the items of list, or is absent when list is empty
PendingFileIs(list) ==
    IF list = <<>> THEN rsResumeFile = NoResumeFile
    ELSE rsResumeFile = ResumeFileOf(list)

\* the pending list .resume.json held before the first invocation
PendingBefore ==
    IF rsBefore.exists /\ rsBefore.parses THEN rsBefore.list ELSE <<>>

TheThread == "t1"

RECURSIVE SortedSeq(_)
SortedSeq(S) ==
    IF S = {} THEN <<>>
    ELSE LET m == CHOOSE x \in S : \A y \in S : x <= y
         IN  <<m>> \o SortedSeq(S \ {m})

\* the media list ExtractMediaFiles returns for a page holding the URLs S
ExtractMediaFiles(S) == [i \in 1..Cardinality(S) |-> MediaInfo(SortedSeq(S)[i], SortedSeq(S)[i])]

\* img/ as handleResumeLogic's os.Stat sees it
DiskOf(files) ==
    [n \in 1..MaxRemoteMedia |-> IF n \in files THEN "data" ELSE "absent"]

URLsOf(list) == {list[i].URL : i \in 1..Len(list)}

\* mutant: the history file is really appended to
appendToHistoryWriting(history, threadID) == history \cup {threadID}

\* appendToHistory: a stub that logs and returns nil without writing
appendToHistory(history, threadID) == history

\* loadHistory and the loop of primaryFiltering, for the one catalog thread
primaryFiltering(listed, history, matches) ==
    IF listed /\ TheThread \notin history /\ matches THEN {TheThread} ELSE {}

\* mutant: the first pending entry is dropped, whichever URL was downloaded
updateResumeFileDroppingHead(file, downloadedURL) ==
    IF ~file.exists \/ ~file.parses \/ file.list = <<>> THEN file
    ELSE ResumeFileOf(Tail(file.list))

\* updateResumeFile: drops downloadedURL from the pending list; an absent or
\* unparseable file is an error and stays as it is
updateResumeFile(file, downloadedURL) ==
    IF ~file.exists \/ ~file.parses THEN file
    ELSE ResumeFileOf(SelectSeq(file.list, LAMBDA m : m.URL # downloadedURL))

\* mutant: a thread is never below the minimum
belowMinimumNever(count, minimum) == FALSE

\* ArchiveSingleThread's minimum_media_count test
belowMinimum(count, minimum) == count < minimum

\* the values of watch_interval_millis tried: negative, unset, one minute
WatchIntervals == {-1000, 0, 60000}
DefaultWatchIntervalMillis == 15 * 60 * 1000

\* mutant: the configured interval is slept as it is
watchIntervalAsConfigured(millis) == millis
\* the interval of the watch sleep: 15 minutes when the configured one is <= 0
watchInterval(millis) == IF millis <= 0 THEN DefaultWatchIntervalMillis ELSE millis

\* mutant: the loop goes on in run-once mode too
afterCycleLooping(watch) == "loop"
\* the end of a pass that was empty or whose threads have all returned:
\* continue in watch mode, break otherwise
afterCycle(watch) == IF watch THEN "loop" ELSE "returned"

\* checkDiskSpace: a stub that ignores the path and the threshold and
\* returns nil, whatever space is free
checkDiskSpace(belowThreshold) == "nil"

InitThread ==
    /\ isWatchMode \in BOOLEAN
    /\ enableResume \in BOOLEAN
    /\ minimumMediaCount \in {0, 1, MaxRemoteMedia}
    /\ titleMatches \in BOOLEAN
    /\ watchIntervalMillis \in WatchIntervals
    /\ sleptMillis = 0
    /\ diskBelowSafety = FALSE
    /\ taskPc = "loop"
    /\ firstLoop = TRUE
    /\ cycle = 0
    /\ discovery = "none"
    /\ catalogListed = FALSE
    /\ historyFile = {}
    \* a fresh save root, or a thread directory whose snapshot is marked complete
    /\ snapshotFile \in {NoSnapshot} \cup {ThreadSnapshot(c, TRUE) : c \in 0..MaxRemoteMedia}
    /\ dirsCreated = snapshotFile.exists
    /\ imgFiles = {}
    /\ resumeFile = NoResumeFile
    /\ indexHtm = NoIndex
    /\ wPc = "none"
    /\ outcome = "none"
    /\ mediaFiles = <<>>
    /\ mediaCount = -1
    /\ filesToDownload = <<>>
    /\ dlIndex = 0
    /\ effects = {}
    /\ skippedByCancel = {}
    /\ archivedCycle = 0
    /\ ctxDone = FALSE
    /\ NUIdle
    /\ RSIdle
    /\ DPIdle
    /\ RNIdle
    /\ NTIdle
    /\ DFIdle
    /\ MDIdle
    /\ PFIdle
    /\ RCIdle
    /\ VFIdle
    /\ RVIdle
    /\ CKIdle
    /\ FNIdle
    /\ CYIdle
    /\ GDIdle
    /\ CWIdle
\* the cancellation signal (SIGINT, the tray's exit, a watch toggle)
Cancel ==
    /\ ~ctxDone
    /\ ctxDone' = TRUE
    /\ UNCHANGED <<nuVars, rsVars, thVars, dpVars, rnVars, ntVars, dfVars, mdVars, pfVars, rcVars, vfVars,
                   rvVars, ckVars, fnVars, cyVars, gdVars, cwVars>>

\* ExecuteTask, one pass of the for loop up to the target list: the watch
\* sleep, checkDiskSpace (a stub returning nil) and primaryFiltering
TaskDiscover ==
    /\ taskPc = "loop"
    /\ cycle < MaxCycles
    /\ IF isWatchMode /\ ~firstLoop /\ ctxDone
       THEN /\ taskPc' = "returned"
            /\ UNCHANGED <<firstLoop, cycle, discovery, catalogListed, sleptMillis,
                           diskBelowSafety>>
       ELSE /\ firstLoop' = FALSE
            /\ cycle' = cycle + 1
            /\ sleptMillis' = IF isWatchMode /\ ~firstLoop
                              THEN watchInterval(watchIntervalMillis) ELSE 0
            /\ \E listed \in BOOLEAN, fetched \in BOOLEAN, low \in BOOLEAN :
                 /\ diskBelowSafety' = low
                 /\ catalogListed' = IF checkDiskSpace(low) # "nil"
                                     THEN catalogListed ELSE listed
                 /\ IF checkDiskSpace(low) # "nil"
                    THEN /\ discovery' = "skipped"
                         /\ taskPc' = "loop"
                    ELSE IF ctxDone \/ ~fetched
                    THEN /\ discovery' = "error"
                         /\ taskPc' = "loop"
                    ELSE IF primaryFiltering(listed, historyFile, titleMatches) = {}
                    THEN /\ discovery' = "empty"
                         /\ taskPc' = afterCycle(isWatchMode)
                    ELSE /\ discovery' = "found"
                         /\ taskPc' = "dispatch"
    /\ UNCHANGED <<isWatchMode, enableResume, minimumMediaCount, titleMatches,
                   watchIntervalMillis>>
    /\ UNCHANGED <<nuVars, rsVars, ctxDone, diskVars, workerVars, dpVars, rnVars, ntVars, dfVars, mdVars, pfVars, rcVars, vfVars,
                   rvVars, ckVars, fnVars, cyVars, gdVars, cwVars>>

\* the dispatch loop for the one target: the ctx.Done() test, then the worker
TaskDispatch ==
    /\ taskPc = "dispatch"
    /\ taskPc' = "wait"
    /\ IF ctxDone
       THEN UNCHANGED workerVars
       ELSE /\ wPc' = "examine"
            /\ outcome' = "none"
            /\ mediaFiles' = <<>>
            /\ mediaCount' = -1
            /\ filesToDownload' = <<>>
            /\ dlIndex' = 0
            /\ effects' = {}
            /\ skippedByCancel' = {}
            /\ UNCHANGED archivedCycle
    /\ UNCHANGED <<isWatchMode, enableResume, minimumMediaCount, titleMatches,
                   firstLoop, cycle, discovery, catalogListed, watchIntervalMillis,
                   sleptMillis, diskBelowSafety>>
    /\ UNCHANGED <<nuVars, rsVars, ctxDone, diskVars, dpVars, rnVars, ntVars, dfVars, mdVars, pfVars, rcVars, vfVars,
                   rvVars, ckVars, fnVars, cyVars, gdVars, cwVars>>

\* threadWg.Wait() returns; the loop goes on in watch mode and breaks otherwise
TaskWait ==
    /\ taskPc = "wait"
    /\ wPc \in {"none", "returned"}
    /\ taskPc' = afterCycle(isWatchMode)
    /\ UNCHANGED <<isWatchMode, enableResume, minimumMediaCount, titleMatches,
                   firstLoop, cycle, discovery, catalogListed, watchIntervalMillis,
                   sleptMillis, diskBelowSafety>>
    /\ UNCHANGED <<nuVars, rsVars, ctxDone, diskVars, workerVars, dpVars, rnVars, ntVars, dfVars, mdVars, pfVars, rcVars, vfVars,
                   rvVars, ckVars, fnVars, cyVars, gdVars, cwVars>>

\* ArchiveSingleThread up to the NeedsUpdate test: fetch, parse, content
\* filters, media extraction, minimum_media_count, snapshot
ArchiveExamine ==
    /\ wPc = "examine"
    /\ \E fetched \in BOOLEAN, passes \in BOOLEAN, page \in SUBSET (1..MaxRemoteMedia) :
         IF ctxDone \/ ~fetched
         THEN /\ outcome' = "error"
              /\ wPc' = "returned"
              /\ UNCHANGED <<mediaFiles, mediaCount>>
         ELSE IF ~passes
         THEN /\ outcome' = "filtered"
              /\ wPc' = "returned"
              /\ UNCHANGED <<mediaFiles, mediaCount>>
         ELSE /\ mediaFiles' = ExtractMediaFiles(page)
              /\ mediaCount' = Cardinality(page)
              /\ IF belowMinimum(Cardinality(page), minimumMediaCount)
                 THEN outcome' = "below_min" /\ wPc' = "returned"
                 ELSE IF ~NeedsUpdate(snapshotFile, Cardinality(page))
                 THEN outcome' = "no_update" /\ wPc' = "returned"
                 ELSE outcome' = "update" /\ wPc' = "prepare"
    /\ UNCHANGED <<filesToDownload, dlIndex, effects, skippedByCancel, archivedCycle>>
    /\ UNCHANGED <<nuVars, rsVars, ctxDone, taskVars, diskVars, dpVars, rnVars, ntVars, dfVars, mdVars, pfVars, rcVars, vfVars,
                   rvVars, ckVars, fnVars, cyVars, gdVars, cwVars>>

\* the directories and the resume step
ArchivePrepare ==
    /\ wPc = "prepare"
    /\ dirsCreated' = TRUE
    /\ LET r == handleResumeLogic(enableResume, resumeFile, mediaFiles, DiskOf(imgFiles))
       IN  /\ filesToDownload' = r.files
           /\ resumeFile' = r.resume
           /\ wPc' = IF Len(r.files) > 0 THEN "download" ELSE "persist"
    /\ dlIndex' = 1
    /\ effects' = effects \cup {"mkdir"} \cup (IF enableResume THEN {"resume"} ELSE {})
    /\ UNCHANGED <<outcome, mediaFiles, mediaCount, skippedByCancel, archivedCycle>>
    /\ UNCHANGED <<historyFile, snapshotFile, imgFiles, indexHtm>>
    /\ UNCHANGED <<nuVars, rsVars, ctxDone, taskVars, dpVars, rnVars, ntVars, dfVars, mdVars, pfVars, rcVars, vfVars,
                   rvVars, ckVars, fnVars, cyVars, gdVars, cwVars>>

\* one turn of downloadMediaFiles' loop: downloadFile, and on success the
\* update of .resume.json (the thumbnail half of the turn, which touches
\* none of these variables, is followed in SpecMedia)
DownloadNext ==
    /\ wPc = "download"
    /\ LET media == filesToDownload[dlIndex]
       IN  IF ctxDone
           THEN /\ skippedByCancel' = skippedByCancel \cup {media.URL}
                /\ UNCHANGED <<imgFiles, resumeFile, effects>>
           ELSE /\ UNCHANGED skippedByCancel
                /\ \E downloaded \in BOOLEAN :
                     IF downloaded
                     THEN /\ imgFiles' = imgFiles \cup {media.OriginalFilename}
                          /\ resumeFile' = IF enableResume
                                           THEN updateResumeFile(resumeFile, media.URL)
                                           ELSE resumeFile
                          /\ effects' = effects \cup {"download"}
                                           \cup (IF enableResume THEN {"resume"} ELSE {})
                     ELSE /\ effects' = effects \cup {"download"}
                          /\ UNCHANGED <<imgFiles, resumeFile>>
    /\ dlIndex' = dlIndex + 1
    /\ wPc' = IF dlIndex = Len(filesToDownload) THEN "persist" ELSE "download"
    /\ UNCHANGED <<outcome, mediaFiles, mediaCount, filesToDownload, archivedCycle>>
    /\ UNCHANGED <<historyFile, snapshotFile, dirsCreated, indexHtm>>
    /\ UNCHANGED <<nuVars, rsVars, ctxDone, taskVars, dpVars, rnVars, ntVars, dfVars, mdVars, pfVars, rcVars, vfVars,
                   rvVars, ckVars, fnVars, cyVars, gdVars, cwVars>>

\* the rest of ArchiveSingleThread: the markup, index.htm, archive_full.html,
\* the snapshot, the history, the removal of .resume.json
ArchivePersist ==
    /\ wPc = "persist"
    /\ wPc' = "returned"
    /\ \E written \in BOOLEAN :
         IF ~written
         THEN /\ outcome' = "save_error"
              /\ UNCHANGED <<diskVars, effects, archivedCycle>>
         ELSE /\ outcome' = "archived"
              /\ indexHtm' = [written |-> TRUE, media |-> URLsOf(mediaFiles)]
              /\ snapshotFile' = ThreadSnapshot(Len(mediaFiles), FALSE)
              /\ historyFile' = appendToHistory(historyFile, TheThread)
              /\ resumeFile' = IF enableResume THEN NoResumeFile ELSE resumeFile
              /\ effects' = effects \cup {"index", "full", "snapshot"}
                               \cup (IF enableResume THEN {"resume"} ELSE {})
              /\ archivedCycle' = cycle
              /\ UNCHANGED <<dirsCreated, imgFiles>>
    /\ UNCHANGED <<mediaFiles, mediaCount, filesToDownload, dlIndex, skippedByCancel>>
    /\ UNCHANGED <<nuVars, rsVars, ctxDone, taskVars, dpVars, rnVars, ntVars, dfVars, mdVars, pfVars, rcVars, vfVars,
                   rvVars, ckVars, fnVars, cyVars, gdVars, cwVars>>

NextThread ==
    \/ Cancel
    \/ TaskDiscover
    \/ TaskDispatch
    \/ TaskWait
    \/ ArchiveExamine
    \/ ArchivePrepare
    \/ DownloadNext
    \/ ArchivePersist

SpecThread == InitThread /\ [][NextThread]_vars

CancelKeepsThreadPending ==
    (wPc = "returned" /\ skippedByCancel # {}) =>
        /\ ~(snapshotFile.exists /\ snapshotFile.LastMediaCount >= mediaCount)
        /\ enableResume =>
              (resumeFile.exists /\ skippedByCancel \subseteq URLsOf(resumeFile.list))

(***************************************************************************)
(* SpecDispatch: one pass of ExecuteTask's dispatch loop over its target   *)
(* threads, the worker slots, and the workers' requests                    *)
(* (task_runner.go:83-113).  A worker is ArchiveSingleThread reduced to    *)
(* its requests: the thread page, then one downloadFile per file.          *)
(***************************************************************************)
DefaultMaxConcurrentDownloads == 4

\* mutant: the channel is made as large as the target list
SemaphoreCapacityOfTargets(setting, targets) == targets

\* cap(threadSemaphore)
SemaphoreCapacity(setting, targets) ==
    IF setting <= 0 THEN DefaultMaxConcurrentDownloads ELSE setting

\* workers inside ArchiveSingleThread; each holds the slot it was started with
Running ==
    {t \in 1..NumTargets : worker[t] \in {"fetch", "fetching", "download", "downloading"}}

\* workers with an HTTP request in flight
InFlight == {t \in 1..NumTargets : worker[t] \in {"fetching", "downloading"}}

InitDispatch ==
    /\ maxDownloadsSetting \in 0..MaxConcurrentSetting
    /\ targetCount \in 1..NumTargets
    /\ dispatchPc = "check"
    /\ nextTarget = 1
    /\ threadSemaphore = 0
    /\ threadWg = 0
    /\ worker = [t \in 1..NumTargets |-> "pending"]
    /\ ctxDone = FALSE
    /\ NUIdle
    /\ RSIdle
    /\ THIdle
    /\ RNIdle
    /\ NTIdle
    /\ DFIdle
    /\ MDIdle
    /\ PFIdle
    /\ RCIdle
    /\ VFIdle
    /\ RVIdle
    /\ CKIdle
    /\ FNIdle
    /\ CYIdle
    /\ GDIdle
    /\ CWIdle
\* mutant: a failed thread ends the dispatch as cancellation does
stopDispatchOnError(cancelled, anyFailed) == cancelled \/ anyFailed
\* the select at the head of the dispatch loop: only ctx.Done() leads to
\* end_loop; a worker's error is logged inside its goroutine and seen by
\* nobody else
stopDispatch(cancelled, anyFailed) == cancelled

\* the head of the for loop: the end of the list, the ctx.Done() test, threadWg.Add(1)
DispatchCheck ==
    /\ dispatchPc = "check"
    /\ IF \/ nextTarget > targetCount
          \/ stopDispatch(ctxDone, \E t \in 1..NumTargets : worker[t] = "err")
       THEN dispatchPc' = "wait" /\ UNCHANGED threadWg
       ELSE dispatchPc' = "acquire" /\ threadWg' = threadWg + 1
    /\ UNCHANGED <<maxDownloadsSetting, targetCount, nextTarget, threadSemaphore, worker>>
    /\ UNCHANGED <<nuVars, rsVars, ctxDone, thVars, rnVars, ntVars, dfVars, mdVars, pfVars, rcVars, vfVars,
                   rvVars, ckVars, fnVars, cyVars, gdVars, cwVars>>

\* threadSemaphore <- struct{}{} gets a slot, and the goroutine starts
DispatchAcquire ==
    /\ dispatchPc = "acquire"
    /\ threadSemaphore < SemaphoreCapacity(maxDownloadsSetting, targetCount)
    /\ threadSemaphore' = threadSemaphore + 1
    /\ worker' = [worker EXCEPT ![nextTarget] = "fetch"]
    /\ nextTarget' = nextTarget + 1
    /\ dispatchPc' = "check"
    /\ UNCHANGED <<maxDownloadsSetting, targetCount, threadWg>>
    /\ UNCHANGED <<nuVars, rsVars, ctxDone, thVars, rnVars, ntVars, dfVars, mdVars, pfVars, rcVars, vfVars,
                   rvVars, ckVars, fnVars, cyVars, gdVars, cwVars>>

\* threadWg.Wait() returns
DispatchWait ==
    /\ dispatchPc = "wait"
    /\ threadWg = 0
    /\ dispatchPc' = "done"
    /\ UNCHANGED <<maxDownloadsSetting, targetCount, nextTarget, threadSemaphore,
                   threadWg, worker>>
    /\ UNCHANGED <<nuVars, rsVars, ctxDone, thVars, rnVars, ntVars, dfVars, mdVars, pfVars, rcVars, vfVars,
                   rvVars, ckVars, fnVars, cyVars, gdVars, cwVars>>

\* the deferred <-threadSemaphore and threadWg.Done() of a worker whose
\* ArchiveSingleThread returns result
WorkerExit(t, result) ==
    /\ worker' = [worker EXCEPT ![t] = result]
    /\ threadSemaphore' = threadSemaphore - 1
    /\ threadWg' = threadWg - 1

\* ArchiveSingleThread's client.Get of the thread page: with ctx done the
\* limiter's Wait fails, nothing is sent and the worker returns the error
WorkerFetch(t) ==
    /\ worker[t] = "fetch"
    /\ IF ctxDone
       THEN WorkerExit(t, "err")
       ELSE /\ worker' = [worker EXCEPT ![t] = "fetching"]
            /\ UNCHANGED <<threadSemaphore, threadWg>>
    /\ UNCHANGED <<maxDownloadsSetting, targetCount, dispatchPc, nextTarget>>
    /\ UNCHANGED <<nuVars, rsVars, ctxDone, thVars, rnVars, ntVars, dfVars, mdVars, pfVars, rcVars, vfVars,
                   rvVars, ckVars, fnVars, cyVars, gdVars, cwVars>>

\* the response to the thread page request: an error ends the worker; a
\* page goes to the download loop, or, with nothing to download (skipped, or
\* no pending file), straight to the end
WorkerFetched(t) ==
    /\ worker[t] = "fetching"
    /\ \E next \in {"err", "ok", "download"} :
         IF next = "download"
         THEN /\ worker' = [worker EXCEPT ![t] = "download"]
              /\ UNCHANGED <<threadSemaphore, threadWg>>
         ELSE WorkerExit(t, next)
    /\ UNCHANGED <<maxDownloadsSetting, targetCount, dispatchPc, nextTarget>>
    /\ UNCHANGED <<nuVars, rsVars, ctxDone, thVars, rnVars, ntVars, dfVars, mdVars, pfVars, rcVars, vfVars,
                   rvVars, ckVars, fnVars, cyVars, gdVars, cwVars>>

\* one turn of downloadMediaFiles' loop: downloadFile tests ctx.Done() and
\* gives the file up, or sends its request
WorkerDownload(t) ==
    /\ worker[t] = "download"
    /\ IF ctxDone
       THEN \E more \in BOOLEAN :
              IF more
              THEN UNCHANGED <<worker, threadSemaphore, threadWg>>
              ELSE WorkerExit(t, "ok")
       ELSE /\ worker' = [worker EXCEPT ![t] = "downloading"]
            /\ UNCHANGED <<threadSemaphore, threadWg>>
    /\ UNCHANGED <<maxDownloadsSetting, targetCount, dispatchPc, nextTarget>>
    /\ UNCHANGED <<nuVars, rsVars, ctxDone, thVars, rnVars, ntVars, dfVars, mdVars, pfVars, rcVars, vfVars,
                   rvVars, ckVars, fnVars, cyVars, gdVars, cwVars>>

\* a download ends, well or not; the loop goes to the next file or the
\* thread is finished (a failed file is only logged)
WorkerDownloaded(t) ==
    /\ worker[t] = "downloading"
    /\ \E more \in BOOLEAN :
         IF more
         THEN /\ worker' = [worker EXCEPT ![t] = "download"]
              /\ UNCHANGED <<threadSemaphore, threadWg>>
         ELSE WorkerExit(t, "ok")
    /\ UNCHANGED <<maxDownloadsSetting, targetCount, dispatchPc, nextTarget>>
    /\ UNCHANGED <<nuVars, rsVars, ctxDone, thVars, rnVars, ntVars, dfVars, mdVars, pfVars, rcVars, vfVars,
                   rvVars, ckVars, fnVars, cyVars, gdVars, cwVars>>

NextDispatch ==
    \/ Cancel
    \/ DispatchCheck
    \/ DispatchAcquire
    \/ DispatchWait
    \/ \E t \in 1..NumTargets : WorkerFetch(t)
    \/ \E t \in 1..NumTargets : WorkerFetched(t)
    \/ \E t \in 1..NumTargets : WorkerDownload(t)
    \/ \E t \in 1..NumTargets : WorkerDownloaded(t)

SpecDispatch == InitDispatch /\ [][NextDispatch]_vars

\* C5 as stated: once cancellation has been raised no new thread worker is
\* dispatched and no worker issues a new HTTP request.
NoDispatchAfterCancel ==
    [][ctxDone =>
          /\ \A t \in 1..NumTargets : worker[t] = "pending" => worker'[t] = "pending"
          /\ InFlight' \subseteq InFlight]_vars

\* C7: at every moment at most max_concurrent_downloads workers (4 when the
\* setting is <= 0) run ArchiveSingleThread, the slots taken are exactly
\* those of the running workers, and when the cycle is over every slot has
\* been released, by the failed workers too.
WorkerPoolBounded ==
    /\ Cardinality(Running) <= (IF maxDownloadsSetting <= 0 THEN 4 ELSE maxDownloadsSetting)
    /\ threadSemaphore = Cardinality(Running)
    /\ dispatchPc = "done" => (threadSemaphore = 0 /\ Running = {})

\* the default pool of 4 is full and the dispatcher is blocked with a fifth
\* target until a worker gives its slot back
WorkerPoolWitness ==
    /\ maxDownloadsSetting = 0
    /\ Cardinality(Running) = 4
    /\ threadSemaphore = 4
    /\ dispatchPc = "acquire"

(***************************************************************************)
(* SpecRun: the pool of tasks of one run: runCliMode (cmd/giba/main.go) or *)
(* the tray's startCoreEngine (internal/systray/systray.go).  A task is    *)
(* one call of ExecuteTask.                                                *)
(***************************************************************************)
\* the defaults of the two revisions of runCliMode
CliDefaults == {4, 1}

\* cap(taskSemaphore)
TaskSemaphoreCapacity(setting, default, tasks) ==
    IF setting <= 0 THEN default ELSE setting

RECURSIVE BatchTasks(_)
\* ExecuteTask calls alive in the manual-run goroutines 1..b
BatchTasks(b) ==
    IF b = 0 THEN 0 ELSE Cardinality(batch[b].running) + BatchTasks(b - 1)

\* the number of ExecuteTask calls alive
RunningTasks ==
    Cardinality({t \in 1..NumTasks : cliTask[t] = "running"})
    + Cardinality({t \in 1..NumTasks : watchTask[t] = "running"})
    + BatchTasks(MaxBatches)

InitRun ==
    /\ runMode \in {"cli", "tray"}
    /\ cliDefault \in CliDefaults
    /\ globalMaxSetting \in 0..MaxGlobalSetting
    /\ taskCount \in 1..NumTasks
    /\ cliPc = IF runMode = "cli" THEN "check" ELSE "done"
    /\ cliNext = 1
    /\ taskSemaphore = 0
    /\ cliWg = 0
    /\ cliTask = [t \in 1..NumTasks |-> "pending"]
    /\ enginePc = IF runMode = "tray" THEN "loop" ELSE "returned"
    /\ isWatching = FALSE
    /\ isRunning = FALSE
    /\ watchTask = [t \in 1..NumTasks |-> "none"]
    /\ batch = [b \in 1..MaxBatches |-> NoBatch]
    /\ ctxDone = FALSE
    /\ NUIdle
    /\ RSIdle
    /\ THIdle
    /\ DPIdle
    /\ NTIdle
    /\ DFIdle
    /\ MDIdle
    /\ PFIdle
    /\ RCIdle
    /\ VFIdle
    /\ RVIdle
    /\ CKIdle
    /\ FNIdle
    /\ CYIdle
    /\ GDIdle
    /\ CWIdle
\* runCliMode, the head of the loop: the end of the list, the ctx.Done()
\* test, wg.Add(1)
CliCheck ==
    /\ cliPc = "check"
    /\ IF cliNext > taskCount \/ ctxDone
       THEN cliPc' = "wait" /\ UNCHANGED cliWg
       ELSE cliPc' = "acquire" /\ cliWg' = cliWg + 1
    /\ UNCHANGED <<runMode, cliDefault, globalMaxSetting, taskCount, cliNext, taskSemaphore,
                   cliTask, enginePc, isWatching, isRunning, watchTask, batch>>
    /\ UNCHANGED <<nuVars, rsVars, ctxDone, thVars, dpVars, ntVars, dfVars, mdVars, pfVars, rcVars, vfVars,
                   rvVars, ckVars, fnVars, cyVars, gdVars, cwVars>>

\* taskSemaphore <- struct{}{} gets a slot and the task's goroutine starts
CliAcquire ==
    /\ cliPc = "acquire"
    /\ taskSemaphore < TaskSemaphoreCapacity(globalMaxSetting, cliDefault, taskCount)
    /\ taskSemaphore' = taskSemaphore + 1
    /\ cliTask' = [cliTask EXCEPT ![cliNext] = "running"]
    /\ cliNext' = cliNext + 1
    /\ cliPc' = "check"
    /\ UNCHANGED <<runMode, cliDefault, globalMaxSetting, taskCount, cliWg,
                   enginePc, isWatching, isRunning, watchTask, batch>>
    /\ UNCHANGED <<nuVars, rsVars, ctxDone, thVars, dpVars, ntVars, dfVars, mdVars, pfVars, rcVars, vfVars,
                   rvVars, ckVars, fnVars, cyVars, gdVars, cwVars>>

\* wg.Wait() returns
CliWait ==
    /\ cliPc = "wait"
    /\ cliWg = 0
    /\ cliPc' = "done"
    /\ UNCHANGED <<runMode, cliDefault, globalMaxSetting, taskCount, cliNext, taskSemaphore,
                   cliWg, cliTask, enginePc, isWatching, isRunning, watchTask, batch>>
    /\ UNCHANGED <<nuVars, rsVars, ctxDone, thVars, dpVars, ntVars, dfVars, mdVars, pfVars, rcVars, vfVars,
                   rvVars, ckVars, fnVars, cyVars, gdVars, cwVars>>

\* a CLI task's ExecuteTask returns and the deferred wg.Done() runs
CliTaskReturn(t) ==
    /\ cliTask[t] = "running"
    /\ cliTask' = [cliTask EXCEPT ![t] = "exited"]
    /\ cliWg' = cliWg - 1
    /\ UNCHANGED <<runMode, cliDefault, globalMaxSetting, taskCount, cliPc, cliNext,
                   taskSemaphore, enginePc, isWatching, isRunning, watchTask, batch>>
    /\ UNCHANGED <<nuVars, rsVars, ctxDone, thVars, dpVars, ntVars, dfVars, mdVars, pfVars, rcVars, vfVars,
                   rvVars, ckVars, fnVars, cyVars, gdVars, cwVars>>

\* the deferred <-taskSemaphore, the last thing the goroutine does
CliTaskRelease(t) ==
    /\ cliTask[t] = "exited"
    /\ cliTask' = [cliTask EXCEPT ![t] = "finished"]
    /\ taskSemaphore' = taskSemaphore - 1
    /\ UNCHANGED <<runMode, cliDefault, globalMaxSetting, taskCount, cliPc, cliNext,
                   cliWg, enginePc, isWatching, isRunning, watchTask, batch>>
    /\ UNCHANGED <<nuVars, rsVars, ctxDone, thVars, dpVars, ntVars, dfVars, mdVars, pfVars, rcVars, vfVars,
                   rvVars, ckVars, fnVars, cyVars, gdVars, cwVars>>

\* startCoreEngine gets "toggle_watch": turned on, it starts an ExecuteTask
\* for every task (watchTaskCancel is nil whenever watching is off, so there
\* is nothing to cancel first); turned off, it cancels them and waits
TrayToggleWatch ==
    /\ enginePc = "loop"
    /\ isWatching' = ~isWatching
    /\ IF ~isWatching
       THEN /\ watchTask' = [t \in 1..NumTasks |->
                               IF t <= taskCount THEN "running" ELSE "none"]
            /\ UNCHANGED enginePc
       ELSE /\ enginePc' = "stopWait"
            /\ UNCHANGED watchTask
    /\ UNCHANGED <<runMode, cliDefault, globalMaxSetting, taskCount, cliPc, cliNext,
                   taskSemaphore, cliWg, cliTask, isRunning, batch>>
    /\ UNCHANGED <<nuVars, rsVars, ctxDone, thVars, dpVars, ntVars, dfVars, mdVars, pfVars, rcVars, vfVars,
                   rvVars, ckVars, fnVars, cyVars, gdVars, cwVars>>

\* watchTaskWg.Wait() returns and the engine is back at its select
TrayStopped ==
    /\ enginePc = "stopWait"
    /\ \A t \in 1..NumTasks : watchTask[t] = "none"
    /\ enginePc' = "loop"
    /\ UNCHANGED <<runMode, cliDefault, globalMaxSetting, taskCount, cliPc, cliNext,
                   taskSemaphore, cliWg, cliTask, isWatching, isRunning, watchTask, batch>>
    /\ UNCHANGED <<nuVars, rsVars, ctxDone, thVars, dpVars, ntVars, dfVars, mdVars, pfVars, rcVars, vfVars,
                   rvVars, ckVars, fnVars, cyVars, gdVars, cwVars>>

\* a watch-mode ExecuteTask returns (its context cancelled, or its set-up failed)
WatchTaskReturn(t) ==
    /\ watchTask[t] = "running"
    /\ watchTask' = [watchTask EXCEPT ![t] = "none"]
    /\ UNCHANGED <<runMode, cliDefault, globalMaxSetting, taskCount, cliPc, cliNext,
                   taskSemaphore, cliWg, cliTask, enginePc, isWatching, isRunning, batch>>
    /\ UNCHANGED <<nuVars, rsVars, ctxDone, thVars, dpVars, ntVars, dfVars, mdVars, pfVars, rcVars, vfVars,
                   rvVars, ckVars, fnVars, cyVars, gdVars, cwVars>>

\* startCoreEngine gets "run_once" and, neither running nor watching,
\* starts the manual-run goroutine
TrayRunOnce ==
    /\ enginePc = "loop"
    /\ ~isRunning /\ ~isWatching
    /\ \E b \in 1..MaxBatches :
         /\ batch[b].pc = "free"
         /\ \A a \in 1..(b - 1) : batch[a].pc # "free"
         /\ batch' = [batch EXCEPT ![b] = [pc |-> "spawned", running |-> {}]]
    /\ UNCHANGED <<runMode, cliDefault, globalMaxSetting, taskCount, cliPc, cliNext,
                   taskSemaphore, cliWg, cliTask, enginePc, isWatching, isRunning, watchTask>>
    /\ UNCHANGED <<nuVars, rsVars, ctxDone, thVars, dpVars, ntVars, dfVars, mdVars, pfVars, rcVars, vfVars,
                   rvVars, ckVars, fnVars, cyVars, gdVars, cwVars>>

\* the manual-run goroutine sets isRunning and starts an ExecuteTask for
\* every task
BatchStart(b) ==
    /\ batch[b].pc = "spawned"
    /\ isRunning' = TRUE
    /\ batch' = [batch EXCEPT ![b] = [pc |-> "waiting", running |-> 1..taskCount]]
    /\ UNCHANGED <<runMode, cliDefault, globalMaxSetting, taskCount, cliPc, cliNext,
                   taskSemaphore, cliWg, cliTask, enginePc, isWatching, watchTask>>
    /\ UNCHANGED <<nuVars, rsVars, ctxDone, thVars, dpVars, ntVars, dfVars, mdVars, pfVars, rcVars, vfVars,
                   rvVars, ckVars, fnVars, cyVars, gdVars, cwVars>>

\* a manual-run ExecuteTask returns
BatchTaskReturn(b, t) ==
    /\ t \in batch[b].running
    /\ batch' = [batch EXCEPT ![b].running = @ \ {t}]
    /\ UNCHANGED <<runMode, cliDefault, globalMaxSetting, taskCount, cliPc, cliNext,
                   taskSemaphore, cliWg, cliTask, enginePc, isWatching, isRunning, watchTask>>
    /\ UNCHANGED <<nuVars, rsVars, ctxDone, thVars, dpVars, ntVars, dfVars, mdVars, pfVars, rcVars, vfVars,
                   rvVars, ckVars, fnVars, cyVars, gdVars, cwVars>>

\* runOnceWg.Wait() returns and the goroutine clears isRunning
BatchEnd(b) ==
    /\ batch[b].pc = "waiting"
    /\ batch[b].running = {}
    /\ isRunning' = FALSE
    /\ batch' = [batch EXCEPT ![b] = NoBatch]
    /\ UNCHANGED <<runMode, cliDefault, globalMaxSetting, taskCount, cliPc, cliNext,
                   taskSemaphore, cliWg, cliTask, enginePc, isWatching, watchTask>>
    /\ UNCHANGED <<nuVars, rsVars, ctxDone, thVars, dpVars, ntVars, dfVars, mdVars, pfVars, rcVars, vfVars,
                   rvVars, ckVars, fnVars, cyVars, gdVars, cwVars>>

\* startCoreEngine's select takes <-ctx.Done() and the engine returns
TrayShutdown ==
    /\ enginePc = "loop"
    /\ ctxDone
    /\ enginePc' = "returned"
    /\ UNCHANGED <<runMode, cliDefault, globalMaxSetting, taskCount, cliPc, cliNext,
                   taskSemaphore, cliWg, cliTask, isWatching, isRunning, watchTask, batch>>
    /\ UNCHANGED <<nuVars, rsVars, ctxDone, thVars, dpVars, ntVars, dfVars, mdVars, pfVars, rcVars, vfVars,
                   rvVars, ckVars, fnVars, cyVars, gdVars, cwVars>>

NextRun ==
    \/ Cancel
    \/ CliCheck
    \/ CliAcquire
    \/ CliWait
    \/ \E t \in 1..NumTasks : CliTaskReturn(t)
    \/ \E t \in 1..NumTasks : CliTaskRelease(t)
    \/ TrayToggleWatch
    \/ TrayStopped
    \/ \E t \in 1..NumTasks : WatchTaskReturn(t)
    \/ TrayRunOnce
    \/ \E b \in 1..MaxBatches : BatchStart(b)
    \/ \E b \in 1..MaxBatches, t \in 1..NumTasks : BatchTaskReturn(b, t)
    \/ \E b \in 1..MaxBatches : BatchEnd(b)
    \/ TrayShutdown

SpecRun == InitRun /\ [][NextRun]_vars

\* C8 as stated: at every moment the number of tasks executing is at most
\* global_max_concurrent_tasks, or the default when the setting is <= 0, in
\* CLI mode and in tray mode.
TaskPoolBounded ==
    RunningTasks <= (IF globalMaxSetting <= 0 THEN cliDefault ELSE globalMaxSetting)

\* the ExecuteTask calls alive for task t in tray mode: those of the
\* manual-run goroutines and the one of watch mode
TrayRunsOf(t) ==
    Cardinality({b \in 1..MaxBatches : t \in batch[b].running})
    + (IF watchTask[t] = "running" THEN 1 ELSE 0)

\* C39: in tray mode no task of the configuration is executing twice at
\* the same time, under every interleaving of run_once and toggle_watch:
\* two manual runs, or a manual run and a watch run, never overlap
TrayRunsNeverOverlap ==
    runMode = "tray" => \A t \in 1..taskCount : TrayRunsOf(t) <= 1

(***************************************************************************)
(* SpecCli: runCliMode together with the ExecuteTask calls it starts       *)
(* (cmd/giba/main.go, internal/core/task_runner.go).  An ExecuteTask       *)
(* returns at once when its set-up fails; in run-once mode it returns      *)
(* after its pass; in watch mode it goes from cycle to wait and back and   *)
(* returns only from the wait, once the context is done.                   *)
(***************************************************************************)
InitCli ==
    /\ runMode = "cli"
    /\ cliDefault \in CliDefaults
    /\ globalMaxSetting \in 0..MaxGlobalSetting
    /\ taskCount \in 1..NumTasks
    /\ cliWatch \in BOOLEAN
    /\ cliSetupFails \in SUBSET (1..NumTasks)
    /\ cliSleeping = {}
    /\ cliPc = "check"
    /\ cliNext = 1
    /\ taskSemaphore = 0
    /\ cliWg = 0
    /\ cliTask = [t \in 1..NumTasks |-> "pending"]
    /\ enginePc = "returned"
    /\ isWatching = FALSE
    /\ isRunning = FALSE
    /\ watchTask = [t \in 1..NumTasks |-> "none"]
    /\ batch = [b \in 1..MaxBatches |-> NoBatch]
    /\ ctxDone = FALSE
    /\ NUIdle
    /\ RSIdle
    /\ THIdle
    /\ DPIdle
    /\ NTIdle
    /\ DFIdle
    /\ MDIdle
    /\ PFIdle
    /\ RCIdle
    /\ VFIdle
    /\ RVIdle
    /\ CKIdle
    /\ FNIdle
    /\ CYIdle
    /\ GDIdle

\* a watch-mode ExecuteTask ends a cycle and waits for the next, or ends the
\* wait by time.After and starts its next cycle
CliWatchPass(t) ==
    /\ cliTask[t] = "running"
    /\ cliWatch
    /\ t \notin cliSetupFails
    /\ t \in cliSleeping \/ ~ctxDone
    /\ cliSleeping' = IF t \in cliSleeping THEN cliSleeping \ {t} ELSE cliSleeping \cup {t}
    /\ UNCHANGED <<cliWatch, cliSetupFails>>
    /\ UNCHANGED <<nuVars, rsVars, ctxDone, thVars, dpVars, rnVars, ntVars, dfVars, mdVars,
                   pfVars, rcVars, vfVars, rvVars, ckVars, fnVars, cyVars, gdVars>>

\* the ExecuteTask of a CLI task returns: from its set-up when that fails,
\* after its pass in run-once mode, from the wait between two cycles in
\* watch mode when the context is done
CliExecuteTaskReturn(t) ==
    /\ \/ t \in cliSetupFails
       \/ ~cliWatch
       \/ t \in cliSleeping /\ ctxDone
    /\ cliTask[t] = "running"
    /\ cliTask' = [cliTask EXCEPT ![t] = "exited"]
    /\ cliWg' = cliWg - 1
    /\ cliSleeping' = cliSleeping \ {t}
    /\ UNCHANGED <<cliWatch, cliSetupFails>>
    /\ UNCHANGED <<runMode, cliDefault, globalMaxSetting, taskCount, cliPc, cliNext,
                   taskSemaphore, enginePc, isWatching, isRunning, watchTask, batch>>
    /\ UNCHANGED <<nuVars, rsVars, ctxDone, thVars, dpVars, ntVars, dfVars, mdVars, pfVars,
                   rcVars, vfVars, rvVars, ckVars, fnVars, cyVars, gdVars>>

NextCli ==
    \/ Cancel
    \/ CliCheck
    \/ CliAcquire
    \/ CliWait
    \/ \E t \in 1..NumTasks : CliWatchPass(t)
    \/ \E t \in 1..NumTasks : CliExecuteTaskReturn(t)
    \/ \E t \in 1..NumTasks : CliTaskRelease(t)

SpecCli == InitCli /\ [][NextCli]_vars

\* every step of runCliMode and of its tasks is taken when it stays
\* possible; the shutdown signal may never come
SpecCliFair ==
    /\ SpecCli
    /\ WF_vars(CliCheck)
    /\ WF_vars(CliAcquire)
    /\ WF_vars(CliWait)
    /\ \A t \in 1..NumTasks :
         /\ WF_vars(CliWatchPass(t))
         /\ WF_vars(CliExecuteTaskReturn(t))
         /\ WF_vars(CliTaskRelease(t))

\* C40: in CLI mode, absent cancellation, every configured task is
\* eventually started, whatever the number of tasks and the setting of
\* global_max_concurrent_tasks, in run-once mode and in watch mode
EveryTaskStarted ==
    \A t \in 1..NumTasks : <>(t > taskCount \/ cliTask[t] # "pending" \/ ctxDone)

(***************************************************************************)
(* SpecNet: network.Client (NewClient, Get, getLimiterForHost) under Get   *)
(* calls from the workers of two tasks, with a live context.  Time is in   *)
(* ms; a limiter of golang.org/x/time/rate with burst 1 is held as         *)
(* [interval, last, tokens], tokens counted in ms of refill (a whole token *)
(* is interval ms).  A host's entry in a rateLimiters map is the last      *)
(* limiter of its sequence; there is none while the sequence is empty.     *)
(***************************************************************************)
\* getLimiterForHost's interval for a host without a configured one
DefaultIntervalMillis == 1000

\* one step of the clock
TickMillis == DefaultIntervalMillis

\* rate.NewLimiter(rate.Every(interval), 1): a full bucket
NewLimiter(intervalMillis) ==
    [interval |-> intervalMillis, last |-> 0, tokens |-> intervalMillis]

\* Limiter.advance: the tokens at time t
advance(lim, t) ==
    IF lim.tokens + (t - lim.last) > lim.interval
    THEN lim.interval
    ELSE lim.tokens + (t - lim.last)

\* Limiter.reserveN(t, 1) as Wait calls it: the limiter afterwards and the
\* time at which the caller may act
reserveN(lim, t) ==
    [limiter |-> [interval |-> lim.interval, last |-> t,
                  tokens |-> advance(lim, t) - lim.interval],
     timeToAct |-> IF advance(lim, t) - lim.interval < 0
                   THEN t + (lim.interval - advance(lim, t))
                   ELSE t]

\* the rateLimiters map NewClient builds from the settings
NewClient(settings) ==
    [created |-> TRUE,
     rateLimiters |-> [h \in Hosts |->
                         IF settings[h] > 0 THEN <<NewLimiter(settings[h])>> ELSE <<>>]]

\* mutant: a new limiter is made and stored at every call
getLimiterForHostAlwaysNew(rateLimiters, host, intervals) ==
    [rateLimiters EXCEPT ![host] =
        Append(@, NewLimiter(IF intervals[host] > 0 THEN intervals[host]
                             ELSE DefaultIntervalMillis))]

\* the rateLimiters map after getLimiterForHost(host); the limiter returned
\* is the host's entry in it
getLimiterForHost(rateLimiters, host, intervals) ==
    IF Len(rateLimiters[host]) > 0
    THEN rateLimiters
    ELSE [rateLimiters EXCEPT ![host] =
            <<NewLimiter(IF intervals[host] > 0 THEN intervals[host]
                         ELSE DefaultIntervalMillis)>>]

\* settings.PerDomainIntervalMillis of the run: one host with an interval of
\* its own, one without
Settings == [h \in Hosts |-> IF h = "dat.example" THEN 2 * TickMillis ELSE 0]

\* the interval a host's requests are to keep
IntervalOf(host) ==
    IF perDomainIntervals[host] > 0 THEN perDomainIntervals[host]
    ELSE DefaultIntervalMillis

\* every task's ExecuteTask has made the Client of its own, from the one
\* globalNetworkSettings
InitNet ==
    /\ perDomainIntervals = Settings
    /\ now = 0
    /\ client = [c \in Clients |-> NewClient(perDomainIntervals)]
    /\ mutexHolder = [c \in Clients |-> 0]
    /\ request = [r \in 1..NumRequests |-> NoRequest]
    /\ ctxDone = FALSE
    /\ NUIdle
    /\ RSIdle
    /\ THIdle
    /\ DPIdle
    /\ RNIdle
    /\ DFIdle
    /\ MDIdle
    /\ PFIdle
    /\ RCIdle
    /\ VFIdle
    /\ RVIdle
    /\ CKIdle
    /\ FNIdle
    /\ CYIdle
    /\ GDIdle
    /\ CWIdle
\* time passes
Tick ==
    /\ now < MaxTicks * TickMillis
    /\ now' = now + TickMillis
    /\ UNCHANGED <<perDomainIntervals, client, mutexHolder, request>>
    /\ UNCHANGED <<nuVars, rsVars, ctxDone, thVars, dpVars, rnVars, dfVars, mdVars, pfVars, rcVars, vfVars,
                   rvVars, ckVars, fnVars, cyVars, gdVars, cwVars>>

\* a worker of task c calls Get for a URL of host h: getLimiterForHost
\* under the mutex (calls are numbered in the order they begin)
GetLimiter(r, c, h) ==
    /\ request[r].pc = "idle"
    /\ \A q \in 1..(r - 1) : request[q].pc # "idle"
    /\ client[c].created
    /\ mutexHolder[c] = 0
    /\ client' = [client EXCEPT ![c].rateLimiters =
                    getLimiterForHost(@, h, perDomainIntervals)]
    /\ request' = [request EXCEPT ![r] =
                     [pc |-> "lock", client |-> c, host |-> h,
                      limiter |-> Len(client'[c].rateLimiters[h]),
                      timeToAct |-> 0]]
    /\ UNCHANGED <<perDomainIntervals, now, mutexHolder>>
    /\ UNCHANGED <<nuVars, rsVars, ctxDone, thVars, dpVars, rnVars, dfVars, mdVars, pfVars, rcVars, vfVars,
                   rvVars, ckVars, fnVars, cyVars, gdVars, cwVars>>

\* Get takes rateLimitersMutex and limiter.Wait reserves its token
GetWait(r) ==
    /\ request[r].pc = "lock"
    /\ mutexHolder[request[r].client] = 0
    /\ mutexHolder' = [mutexHolder EXCEPT ![request[r].client] = r]
    /\ LET c == request[r].client
           h == request[r].host
           res == reserveN(client[c].rateLimiters[h][request[r].limiter], now)
       IN /\ client' = [client EXCEPT ![c].rateLimiters[h][request[r].limiter] =
                           res.limiter]
          /\ request' = [request EXCEPT ![r].pc = "wait",
                                        ![r].timeToAct = res.timeToAct]
    /\ UNCHANGED <<perDomainIntervals, now>>
    /\ UNCHANGED <<nuVars, rsVars, ctxDone, thVars, dpVars, rnVars, dfVars, mdVars, pfVars, rcVars, vfVars,
                   rvVars, ckVars, fnVars, cyVars, gdVars, cwVars>>

\* limiter.Wait returns, not before timeToAct (the time the limiter admits
\* the request at); the request is sent, Get returns with a body or an
\* error, and the deferred Unlock runs
GetReturn(r) ==
    /\ request[r].pc = "wait"
    /\ now >= request[r].timeToAct
    /\ request' = [request EXCEPT ![r].pc = "done"]
    /\ mutexHolder' = [mutexHolder EXCEPT ![request[r].client] = 0]
    /\ UNCHANGED <<perDomainIntervals, now, client>>
    /\ UNCHANGED <<nuVars, rsVars, ctxDone, thVars, dpVars, rnVars, dfVars, mdVars, pfVars, rcVars, vfVars,
                   rvVars, ckVars, fnVars, cyVars, gdVars, cwVars>>

NextNet ==
    \/ Tick
    \/ \E r \in 1..NumRequests, c \in Clients, h \in Hosts : GetLimiter(r, c, h)
    \/ \E r \in 1..NumRequests : GetWait(r)
    \/ \E r \in 1..NumRequests : GetReturn(r)

SpecNet == InitNet /\ [][NextNet]_vars

\* requests the limiter has given their time of admission
Admitted == {r \in 1..NumRequests : request[r].pc \in {"wait", "done"}}

\* the admitted requests of client c to host h
AdmittedOf(c, h) == {r \in Admitted : request[r].client = c /\ request[r].host = h}

\* the time between the first and the last admission of a set of requests
Span(S) ==
    IF S = {} THEN 0
    ELSE request[CHOOSE r \in S : \A q \in S : request[q].timeToAct <= request[r].timeToAct].timeToAct
         - request[CHOOSE r \in S : \A q \in S : request[q].timeToAct >= request[r].timeToAct].timeToAct

\* C9: through one Client, no two requests to the same host are admitted
\* less than the host's interval I apart, so M of them take at least
\* (M-1) x I, and every Get to the host uses the one limiter the client has
\* for it.
OneClientSpacing ==
    \A c \in Clients, h \in Hosts :
        /\ Len(client[c].rateLimiters[h]) <= 1
        /\ \A r \in 1..NumRequests :
             (request[r].client = c /\ request[r].host = h) => request[r].limiter = 1
        /\ \A r, q \in AdmittedOf(c, h) :
             r # q => \/ request[r].timeToAct - request[q].timeToAct >= IntervalOf(h)
                      \/ request[q].timeToAct - request[r].timeToAct >= IntervalOf(h)
        /\ AdmittedOf(c, h) # {} =>
             Span(AdmittedOf(c, h)) >= (Cardinality(AdmittedOf(c, h)) - 1) * IntervalOf(h)

\* three Get calls of one client to a host without a configured interval
\* have all returned, each admitted as early as the limiter made at the
\* first call let it
OneClientSpacingWitness ==
    \E c \in Clients, h \in Hosts :
        /\ perDomainIntervals[h] = 0
        /\ AdmittedOf(c, h) = {1, 2, 3}
        /\ \A r \in {1, 2, 3} : request[r].pc = "done"
        /\ request[1].timeToAct = 0
        /\ request[2].timeToAct = DefaultIntervalMillis
        /\ request[3].timeToAct = 2 * DefaultIntervalMillis

\* C10 as stated: any two requests to the same host, of the same task or
\* of different tasks, are admitted at least the host's interval apart.
AllTasksSpacing ==
    \A r, q \in Admitted :
        (r # q /\ request[r].host = request[q].host) =>
            \/ request[r].timeToAct - request[q].timeToAct >= IntervalOf(request[r].host)
            \/ request[q].timeToAct - request[r].timeToAct >= IntervalOf(request[r].host)

(***************************************************************************)
(* SpecDownload: downloadFile (internal/core/thread_archiver.go) for one   *)
(* file, over Client.Get and HTTPError.IsRetryable                         *)
(* (internal/network/client.go).                                           *)
(***************************************************************************)
\* http.StatusOK
StatusOK == 200

\* the status codes a response can carry
StatusCodes == 100..599

\* what a Get can meet: the request gets no answer ("senderr"), an answer
\* with a status code ("ok"), or a 200 whose body cannot be read ("readerr";
\* the body of any other status is not read)
Responses ==
    {[transport |-> "senderr", status |-> 0], [transport |-> "readerr", status |-> StatusOK]}
    \cup {[transport |-> "ok", status |-> s] : s \in StatusCodes}

\* mutant: every error is taken as retryable
IsRetryableAlways(StatusCode) == TRUE

\* HTTPError.IsRetryable
IsRetryable(StatusCode) ==
    IF StatusCode >= 400 /\ StatusCode < 500 THEN FALSE ELSE TRUE

\* what Client.Get returns: err is "nil", "http" (an *HTTPError carrying
\* StatusCode) or "other"; with the context done the limiter's Wait fails
\* before anything is sent
Get(ctxIsDone, response) ==
    IF ctxIsDone \/ response.transport = "senderr"
    THEN [body |-> FALSE, err |-> "other", StatusCode |-> 0]
    ELSE IF response.status # StatusOK
    THEN [body |-> FALSE, err |-> "http", StatusCode |-> response.status]
    ELSE IF response.transport = "readerr"
    THEN [body |-> FALSE, err |-> "other", StatusCode |-> 0]
    ELSE [body |-> TRUE, err |-> "nil", StatusCode |-> 0]

InitDownload ==
    /\ dfRetryCount \in 0..MaxRetryCount
    /\ dfI = 0
    /\ dfPc = "head"
    /\ dfAttempts = 0
    /\ dfResponse = NoResponse
    /\ dfGet = NoGetResult
    /\ dfRetryable = "none"
    /\ dfResult = "running"
    /\ dfWritten = FALSE
    /\ ctxDone = FALSE
    /\ NUIdle
    /\ RSIdle
    /\ THIdle
    /\ DPIdle
    /\ RNIdle
    /\ NTIdle
    /\ MDIdle
    /\ PFIdle
    /\ RCIdle
    /\ VFIdle
    /\ RVIdle
    /\ CKIdle
    /\ FNIdle
    /\ CYIdle
    /\ GDIdle
    /\ CWIdle
\* the head of the for loop: i <= retryCount, the ctx.Done() test, and the
\* call of client.Get
DownloadAttempt ==
    /\ dfPc = "head"
    /\ IF dfI > dfRetryCount
       THEN /\ dfResult' = "exhausted"
            /\ dfPc' = "done"
            /\ UNCHANGED dfAttempts
       ELSE IF ctxDone
       THEN /\ dfResult' = "cancelled"
            /\ dfPc' = "done"
            /\ UNCHANGED dfAttempts
       ELSE /\ dfAttempts' = dfAttempts + 1
            /\ dfPc' = "get"
            /\ UNCHANGED dfResult
    /\ UNCHANGED <<dfRetryCount, dfI, dfResponse, dfGet, dfRetryable, dfWritten>>
    /\ UNCHANGED <<nuVars, rsVars, ctxDone, thVars, dpVars, rnVars, ntVars, mdVars, pfVars, rcVars, vfVars,
                   rvVars, ckVars, fnVars, cyVars, gdVars, cwVars>>

\* client.Get returns and the rest of the loop body runs: a non-retryable
\* HTTPError ends the download; any other error, or a failed os.WriteFile,
\* leads (after the wait, when an attempt is left) to the next turn
DownloadGot ==
    /\ dfPc = "get"
    /\ \E response \in Responses :
         LET got == Get(ctxDone, response)
         IN  /\ dfResponse' = IF ctxDone THEN NoResponse ELSE response
             /\ dfGet' = got
             /\ dfRetryable' = IF got.err = "http" THEN IsRetryable(got.StatusCode)
                               ELSE "none"
             /\ IF got.err = "http" /\ ~IsRetryable(got.StatusCode)
                THEN /\ dfResult' = "permanent"
                     /\ dfPc' = "done"
                     /\ UNCHANGED <<dfI, dfWritten>>
                ELSE IF got.err # "nil"
                THEN /\ dfI' = dfI + 1
                     /\ dfPc' = "head"
                     /\ UNCHANGED <<dfResult, dfWritten>>
                ELSE \E written \in BOOLEAN :
                       IF written
                       THEN /\ dfWritten' = TRUE
                            /\ dfResult' = "ok"
                            /\ dfPc' = "done"
                            /\ UNCHANGED dfI
                       ELSE /\ dfI' = dfI + 1
                            /\ dfPc' = "head"
                            /\ UNCHANGED <<dfResult, dfWritten>>
    /\ UNCHANGED <<dfRetryCount, dfAttempts>>
    /\ UNCHANGED <<nuVars, rsVars, ctxDone, thVars, dpVars, rnVars, ntVars, mdVars, pfVars, rcVars, vfVars,
                   rvVars, ckVars, fnVars, cyVars, gdVars, cwVars>>

NextDownload ==
    \/ Cancel
    \/ DownloadAttempt
    \/ DownloadGot

SpecDownload == InitDownload /\ [][NextDownload]_vars

\* C11: IsRetryable() is false for every status code in 400-499 and true
\* for every status code in 500-599.
RetryableClassification ==
    (dfGet.err = "http") =>
        /\ dfGet.StatusCode \in 400..499 => dfRetryable = FALSE
        /\ dfGet.StatusCode \in 500..599 => dfRetryable = TRUE

\* a 503 was classified retryable and the file is tried again
RetryableClassificationWitness ==
    /\ dfGet.err = "http"
    /\ dfGet.StatusCode = 503
    /\ dfRetryable = TRUE
    /\ dfPc = "head"
    /\ dfResult = "running"

\* C12 as stated: Get returns the body and no error for every 2xx response,
\* and for every other response no body and an HTTPError carrying the
\* response's status.
GetReturnsBodyOn2xx ==
    (dfResponse.transport = "ok") =>
        IF dfResponse.status \in 200..299
        THEN dfGet.body /\ dfGet.err = "nil"
        ELSE ~dfGet.body /\ dfGet.err = "http" /\ dfGet.StatusCode = dfResponse.status

\* C13 as stated: downloadFile stops at the first successful attempt and at
\* the first 4xx error; when it ends otherwise it has made exactly
\* retryCount+1 attempts; it never makes more than retryCount+1.
DownloadAttemptsAsStated ==
    /\ dfAttempts <= dfRetryCount + 1
    /\ dfWritten => (dfPc = "done" /\ dfResult = "ok")
    /\ (dfGet.err = "http" /\ dfGet.StatusCode \in 400..499) =>
          (dfPc = "done" /\ dfResult = "permanent")
    /\ (dfPc = "done" /\ dfResult \notin {"ok", "permanent"}) =>
          dfAttempts = dfRetryCount + 1

\* C13, amended: as above, but the exact count of retryCount+1 attempts is
\* that of a download that ends with its attempts used up; a download ended
\* by cancellation has made at most that many.
DownloadAttempts ==
    /\ dfAttempts <= dfRetryCount + 1
    /\ dfWritten => (dfPc = "done" /\ dfResult = "ok")
    /\ (dfGet.err = "http" /\ dfGet.StatusCode \in 400..499) =>
          (dfPc = "done" /\ dfResult = "permanent")
    /\ (dfPc = "done" /\ dfResult = "exhausted") => dfAttempts = dfRetryCount + 1
    /\ (dfPc = "done" /\ dfResult = "cancelled") => ctxDone

\* every one of the three attempts of retryCount = 2 failed, the last with a
\* retryable 502, and the download ended with an error
DownloadAttemptsWitness ==
    /\ dfRetryCount = 2
    /\ dfAttempts = 3
    /\ dfPc = "done"
    /\ dfResult = "exhausted"
    /\ dfGet.err = "http"
    /\ dfGet.StatusCode = 502
    /\ ~ctxDone

(***************************************************************************)
(* SpecMedia: ArchiveSingleThread from the call of downloadMediaFiles to   *)
(* its return (internal/core/thread_archiver.go), for one thread whose     *)
(* directories exist and whose download list handleResumeLogic has just    *)
(* returned.                                                               *)
(***************************************************************************)
\* the lists ExtractMediaFiles can hand over: items of distinct URLs
DistinctLists ==
    {list \in UNION {[1..n -> 1..NumURLs] : n \in 0..NumURLs} :
        \A i, j \in 1..Len(list) : list[i] = list[j] => i = j}

\* mutant: the thumbnail is left out when the full-size download failed
thumbnailWantedAfterSuccess(fullSizeFailed, hasThumbnailURL) ==
    hasThumbnailURL /\ ~fullSizeFailed
\* the test before the thumbnail block of downloadMediaFiles: the trimmed
\* ThumbnailURL is not empty, whatever err the full-size downloadFile gave
thumbnailWanted(fullSizeFailed, hasThumbnailURL) == hasThumbnailURL

\* mutant: a failed item ends the loop and the thread
nextAfterItemAborting(failed, isLast) ==
    IF failed THEN "returned" ELSE IF isLast THEN "rest" ELSE "full"
\* the end of one turn of the loop: the next item, or past the loop, whether
\* this item's downloads failed or not
nextAfterItem(failed, isLast) == IF isLast THEN "rest" ELSE "full"

InitMedia ==
    /\ mdEnableResume \in BOOLEAN
    /\ mdWritable \in BOOLEAN
    /\ \E urls \in DistinctLists :
         LET allMediaFiles == [i \in 1..Len(urls) |-> MediaInfo(urls[i], urls[i])]
             resumed == handleResumeLogic(mdEnableResume, NoResumeFile, allMediaFiles,
                                          [n \in 1..NumURLs |-> "absent"])
         IN  /\ mdFiles = resumed.files
             /\ mdResumeFile = resumed.resume
             /\ mdNoThumb \in SUBSET URLsOf(allMediaFiles)
    /\ mdI = 1
    /\ mdPc = IF Len(mdFiles) > 0 THEN "full" ELSE "rest"
    /\ mdImg = {}
    /\ mdFailed = {}
    /\ mdThumbTried = {}
    /\ mdThumb = {}
    /\ mdResult = "running"
    /\ mdSaved = FALSE
    /\ ctxDone = FALSE
    /\ NUIdle
    /\ RSIdle
    /\ THIdle
    /\ DPIdle
    /\ RNIdle
    /\ NTIdle
    /\ DFIdle
    /\ PFIdle
    /\ RCIdle
    /\ VFIdle
    /\ RVIdle
    /\ CKIdle
    /\ FNIdle
    /\ CYIdle
    /\ GDIdle
    /\ CWIdle
\* one turn of the loop, first half: downloadFile for the full-size file
\* (an error under a cancelled context), the warning on failure, and on
\* success the update of .resume.json
MediaFull ==
    /\ mdPc = "full"
    /\ LET media == mdFiles[mdI]
       IN  \E downloaded \in (IF ctxDone THEN {FALSE} ELSE BOOLEAN) :
             IF downloaded
             THEN /\ mdImg' = mdImg \cup {media.URL}
                  /\ mdResumeFile' = IF mdEnableResume
                                     THEN updateResumeFile(mdResumeFile, media.URL)
                                     ELSE mdResumeFile
                  /\ UNCHANGED mdFailed
             ELSE /\ mdFailed' = mdFailed \cup {media.URL}
                  /\ UNCHANGED <<mdImg, mdResumeFile>>
    /\ mdPc' = "thumb"
    /\ UNCHANGED <<mdEnableResume, mdWritable, mdFiles, mdNoThumb, mdI, mdThumbTried,
                   mdThumb, mdResult, mdSaved>>
    /\ UNCHANGED <<nuVars, rsVars, ctxDone, thVars, dpVars, rnVars, ntVars, dfVars, pfVars, rcVars, vfVars,
                   rvVars, ckVars, fnVars, cyVars, gdVars, cwVars>>

\* second half: downloadFile for the thumbnail when there is a ThumbnailURL,
\* then the sleep and the next turn
MediaThumb ==
    /\ mdPc = "thumb"
    /\ LET media == mdFiles[mdI]
       IN  /\ IF thumbnailWanted(media.URL \in mdFailed, media.URL \notin mdNoThumb)
              THEN /\ mdThumbTried' = mdThumbTried \cup {media.URL}
                   /\ \E downloaded \in (IF ctxDone THEN {FALSE} ELSE BOOLEAN) :
                        mdThumb' = IF downloaded THEN mdThumb \cup {media.URL}
                                   ELSE mdThumb
              ELSE UNCHANGED <<mdThumbTried, mdThumb>>
           /\ mdPc' = nextAfterItem(media.URL \in mdFailed, mdI = Len(mdFiles))
    /\ mdI' = mdI + 1
    /\ mdResult' = IF mdPc' = "returned" THEN "error" ELSE mdResult
    /\ UNCHANGED <<mdEnableResume, mdWritable, mdFiles, mdNoThumb, mdImg, mdFailed,
                   mdResumeFile, mdSaved>>
    /\ UNCHANGED <<nuVars, rsVars, ctxDone, thVars, dpVars, rnVars, ntVars, dfVars, pfVars, rcVars, vfVars,
                   rvVars, ckVars, fnVars, cyVars, gdVars, cwVars>>

\* past the loop: the markup, index.htm (an error when the write fails),
\* archive_full.html, the snapshot, the history stub, the removal of
\* .resume.json, and return nil
MediaRest ==
    /\ mdPc = "rest"
    /\ mdPc' = "returned"
    /\ IF mdWritable
       THEN /\ mdSaved' = TRUE
            /\ mdResumeFile' = IF mdEnableResume THEN NoResumeFile ELSE mdResumeFile
            /\ mdResult' = "nil"
       ELSE /\ mdResult' = "error"
            /\ UNCHANGED <<mdSaved, mdResumeFile>>
    /\ UNCHANGED <<mdEnableResume, mdWritable, mdFiles, mdNoThumb, mdI, mdImg, mdFailed,
                   mdThumbTried, mdThumb>>
    /\ UNCHANGED <<nuVars, rsVars, ctxDone, thVars, dpVars, rnVars, ntVars, dfVars, pfVars, rcVars, vfVars,
                   rvVars, ckVars, fnVars, cyVars, gdVars, cwVars>>

NextMedia ==
    \/ Cancel
    \/ MediaFull
    \/ MediaThumb
    \/ MediaRest

SpecMedia == InitMedia /\ [][NextMedia]_vars

\* the items of filesToDownload the loop has dealt with in full
MediaDone == {mdFiles[i].URL : i \in 1..(mdI - 1)}

\* C14: every item with a thumbnail URL that the loop has dealt with had its
\* thumbnail download attempted, whether its full-size download succeeded or
\* failed; the full-size half always hands over to the thumbnail half; and
\* the thumbnail half, whatever its outcome, leaves the full-size outcomes
\* and .resume.json as they were
ThumbnailIndependent ==
    /\ [](\A u \in MediaDone : u \notin mdNoThumb => u \in mdThumbTried)
    /\ [][/\ (mdPc = "full" /\ mdPc' # "full") => mdPc' = "thumb"
          /\ (mdPc = "thumb" /\ mdPc' # "thumb") =>
                /\ mdFiles[mdI].URL \notin mdNoThumb =>
                       mdFiles[mdI].URL \in mdThumbTried'
                /\ UNCHANGED <<mdImg, mdFailed, mdResumeFile>>]_vars

\* a full-size failure whose thumbnail arrived, beside a full-size success
\* whose thumbnail failed, with the failed item still in .resume.json
ThumbnailIndependentWitness ==
    /\ mdEnableResume
    /\ \E u \in mdFailed : u \in mdThumb /\ u \in URLsOf(mdResumeFile.list)
    /\ \E u \in mdImg : u \in mdThumbTried /\ u \notin mdThumb

\* C15: with resume enabled, through the download loop .resume.json is the
\* download list without the items whose full-size download has succeeded,
\* so every item not yet downloaded is still listed; a successful full-size
\* download removes that item's entry and no other, a failed one leaves the
\* file as it was
ResumeFileTracksPending ==
    /\ []((mdEnableResume /\ Len(mdFiles) > 0 /\ mdPc \in {"full", "thumb", "rest"}) =>
            /\ mdResumeFile =
                 ResumeFileOf(SelectSeq(mdFiles, LAMBDA m : m.URL \notin mdImg))
            /\ \A i \in 1..Len(mdFiles) :
                 mdFiles[i].URL \notin mdImg =>
                   \E j \in 1..Len(mdResumeFile.list) : mdResumeFile.list[j] = mdFiles[i])
    /\ [][(mdEnableResume /\ mdPc = "full" /\ mdPc' # "full") =>
            IF mdFiles[mdI].URL \in mdImg'
            THEN /\ mdFiles[mdI].URL \in URLsOf(mdResumeFile.list)
                 /\ mdResumeFile' =
                      ResumeFileOf(SelectSeq(mdResumeFile.list,
                                             LAMBDA m : m # mdFiles[mdI]))
            ELSE mdResumeFile' = mdResumeFile]_vars

\* the first item failed, the second succeeded, and the file lists the first
ResumeFileTracksPendingWitness ==
    /\ mdEnableResume
    /\ mdPc \in {"thumb", "rest"}
    /\ Len(mdFiles) >= 2
    /\ mdFiles[1].URL \in mdFailed
    /\ mdFiles[2].URL \in mdImg
    /\ mdResumeFile.list = <<mdFiles[1]>>

\* C33: when ArchiveSingleThread has returned with resume enabled,
\* .resume.json is absent only if every item of the download list is on
\* disk, and every item that is not on disk is still listed in it
ResumeAbsentOnlyWhenComplete ==
    (mdPc = "returned" /\ mdEnableResume) =>
        /\ ~mdResumeFile.exists => URLsOf(mdFiles) \subseteq mdImg
        /\ \A i \in 1..Len(mdFiles) :
             mdFiles[i].URL \notin mdImg =>
               \E j \in 1..Len(mdResumeFile.list) : mdResumeFile.list[j] = mdFiles[i]

\* C16: a failed full-size download does not abort the thread: the loop
\* moves on to the next item, past the loop every item of the list has been
\* attempted, and ArchiveSingleThread writes the markup and the snapshot and
\* returns nil; it returns an error only when the write of index.htm fails
FailedItemNotFatal ==
    /\ [](mdFailed # {} =>
            /\ mdPc \in {"rest", "returned"} =>
                 /\ mdI = Len(mdFiles) + 1
                 /\ URLsOf(mdFiles) \subseteq mdImg \cup mdFailed
            /\ (mdPc = "returned" /\ mdWritable) => (mdResult = "nil" /\ mdSaved)
            /\ mdResult = "error" => (~mdWritable /\ mdPc = "returned"))
    /\ [][(mdPc = "thumb" /\ mdPc' # "thumb" /\ mdFiles[mdI].URL \in mdFailed) =>
            /\ mdI' = mdI + 1
            /\ mdPc' = IF mdI < Len(mdFiles) THEN "full" ELSE "rest"]_vars

\* the first item failed, a later one was downloaded, and the thread was
\* archived without an error
FailedItemNotFatalWitness ==
    /\ Len(mdFiles) >= 2
    /\ mdFiles[1].URL \in mdFailed
    /\ mdFiles[2].URL \in mdImg
    /\ mdPc = "returned"
    /\ mdResult = "nil"
    /\ mdSaved
    /\ ~ctxDone

\* C17: a run of ArchiveSingleThread that ends before the directory step
\* (fetch or parse error, content filters, fewer media than
\* minimum_media_count, NeedsUpdate false) has created no directory, written
\* or deleted no file and appended nothing to the history: no step of that
\* part changes the disk, the run has no effect when it has returned, and a
\* thread below the minimum never reaches the directory step
EarlyEndNoEffects ==
    /\ []((wPc = "returned" /\ outcome \in {"error", "filtered", "below_min", "no_update"})
            => effects = {})
    /\ []((mediaCount >= 0 /\ mediaCount < minimumMediaCount)
            => (wPc = "returned" /\ outcome = "below_min" /\ effects = {}))
    /\ [][wPc = "examine" =>
            /\ UNCHANGED diskVars
            /\ wPc' = "prepare" =>
                 (mediaCount' >= minimumMediaCount /\ NeedsUpdate(snapshotFile, mediaCount'))]_vars

\* one medium extracted under a larger minimum, on a fresh save root
EarlyEndNoEffectsWitness ==
    /\ wPc = "returned"
    /\ outcome = "below_min"
    /\ mediaCount = 1
    /\ minimumMediaCount = MaxRemoteMedia
    /\ ~dirsCreated
    /\ historyFile = {}
    /\ indexHtm = NoIndex
    /\ snapshotFile = NoSnapshot

\* C18: absent cancellation a finished cycle has run every thread of the
\* target list to its own end, failed siblings or not; the step in which a
\* thread's archival returns its error changes no other thread and not the
\* dispatcher; and the dispatch loop is left early only on cancellation
SiblingErrorsIsolated ==
    /\ []((dispatchPc = "done" /\ ~ctxDone) =>
            \A t \in 1..targetCount : worker[t] \in {"ok", "err"})
    /\ [][/\ \A t \in 1..NumTargets :
               (worker[t] # "err" /\ worker'[t] = "err") =>
                 /\ \A o \in (1..NumTargets) \ {t} : worker'[o] = worker[o]
                 /\ UNCHANGED <<dispatchPc, nextTarget, ctxDone>>
          /\ (dispatchPc = "check" /\ dispatchPc' = "wait" /\ ~ctxDone) =>
               nextTarget > targetCount]_vars

\* the first thread failed before the last one was dispatched, and the
\* cycle still ran every thread to its end
SiblingErrorsIsolatedWitness ==
    /\ dispatchPc = "done"
    /\ ~ctxDone
    /\ targetCount >= 3
    /\ worker[1] = "err"
    /\ \A t \in 2..targetCount : worker[t] = "ok"

\* C19: in run-once mode ExecuteTask returns at the end of the first pass
\* that is empty or whose dispatched threads have all returned, and starts
\* no pass after it: it returns only after such a pass, such a pass is
\* followed by nothing but the return, and after the return the count of
\* passes stands still
RunOnceEnds ==
    /\ []((~isWatchMode /\ taskPc = "returned") => discovery \in {"empty", "found"})
    /\ []((~isWatchMode /\ discovery = "empty") => taskPc = "returned")
    /\ []((~isWatchMode /\ discovery = "found") => taskPc \in {"dispatch", "wait", "returned"})
    /\ [][(~isWatchMode /\ taskPc = "wait" /\ taskPc' # "wait") => taskPc' = "returned"]_vars
    /\ [][(~isWatchMode /\ taskPc = "returned") =>
            (taskPc' = "returned" /\ cycle' = cycle /\ UNCHANGED <<diskVars, workerVars>>)]_vars

\* a failed discovery, then a pass that archived the thread, then the return
RunOnceEndsWitness ==
    /\ ~isWatchMode
    /\ taskPc = "returned"
    /\ cycle = 2
    /\ discovery = "found"
    /\ outcome = "archived"
    /\ ~ctxDone

\* C20: in watch mode ExecuteTask returns only once cancellation has been
\* raised; a failed discovery, an empty target list and a pass whose threads
\* have returned (failed or not) lead back to the head of the loop; and
\* every pass after the first comes after a wait of the watch interval, 15
\* minutes when the configured interval is <= 0
WatchRunsUntilCancelled ==
    /\ []((isWatchMode /\ taskPc = "returned") => ctxDone)
    /\ [][(isWatchMode /\ taskPc = "loop" /\ cycle' = cycle + 1) =>
            /\ discovery' \in {"error", "empty"} => taskPc' = "loop"
            /\ cycle >= 1 =>
                 sleptMillis' = (IF watchIntervalMillis <= 0 THEN 15 * 60 * 1000
                                 ELSE watchIntervalMillis)]_vars
    /\ [][(isWatchMode /\ taskPc = "wait" /\ taskPc' # "wait") => taskPc' = "loop"]_vars

\* a watch task with no interval configured that went through a failed
\* discovery, an empty list and a failed thread, waited 15 minutes before
\* its fourth pass and has not returned
WatchRunsUntilCancelledWitness ==
    /\ isWatchMode
    /\ watchIntervalMillis <= 0
    /\ ~ctxDone
    /\ cycle >= 3
    /\ sleptMillis = 15 * 60 * 1000
    /\ outcome = "error"
    /\ taskPc = "loop"

\* C21: a pass at whose head the save root has less free space than the
\* safety threshold makes no discovery, dispatches nothing and downloads
\* nothing
LowDiskSkipsCycle ==
    diskBelowSafety => (discovery = "skipped" /\ taskPc \in {"loop", "returned"})

(***************************************************************************)
(* SpecDiscover: primaryFiltering (internal/core/task_runner.go).  Strings *)
(* are sequences of characters; the empty string is <<>>.                  *)
(***************************************************************************)
\* largest number of threads in a catalog, and of thread IDs
MaxCatalog == 2

\* the thread titles, search keywords and exclude lists tried
Titles == {<<>>, <<"a">>, <<"a", "b">>, <<"b", "a">>}
Keywords == {<<>>, <<"a">>, <<"a", "b">>}
ExcludeLists == {<<>>, <<<<"b">>>>, <<<<"c">>, <<"b", "a">>>>, <<<<>>>>}
\* the history files tried: no line, one thread, every thread
HistoryFiles == {<<>>, <<1>>, [i \in 1..MaxCatalog |-> i]}

ThreadInfo(id, title) == [ID |-> id, Title |-> title]
Catalogs ==
    UNION {[1..n -> {ThreadInfo(id, title) : id \in 1..MaxCatalog, title \in Titles}] :
             n \in 0..MaxCatalog}

\* strings.Contains
Contains(s, substr) ==
    \E i \in 0..(Len(s) - Len(substr)) : SubSeq(s, i + 1, i + Len(substr)) = substr

\* mutant: only the first exclude keyword is looked at
containsAnyFirstOnly(s, substrings) ==
    Len(substrings) > 0 /\ Contains(s, substrings[1])
\* containsAny
containsAny(s, substrings) ==
    \E k \in 1..Len(substrings) : Contains(s, substrings[k])

\* loadHistory: the set of the file's lines
loadHistory(lines) == {lines[i] : i \in 1..Len(lines)}

\* mutant: a thread of the history is kept
keepThreadIgnoringHistory(thread, completedHistory, keyword, excludes) ==
    /\ keyword = <<>> \/ Contains(thread.Title, keyword)
    /\ ~containsAny(thread.Title, excludes)
\* the body of primaryFiltering's loop: the thread is appended or not
keepThread(thread, completedHistory, keyword, excludes) ==
    IF thread.ID \in completedHistory THEN FALSE
    ELSE LET matchKeyword == keyword = <<>> \/ Contains(thread.Title, keyword)
             exclude == containsAny(thread.Title, excludes)
         IN  matchKeyword /\ ~exclude

InitDiscover ==
    /\ pfCatalog \in Catalogs
    /\ pfHistoryLines \in HistoryFiles
    /\ pfSearchKeyword \in Keywords
    /\ pfExcludeKeywords \in ExcludeLists
    /\ pfPc = "fetch"
    /\ pfI = 0
    /\ pfTargets = <<>>
    /\ pfErr = "none"
    /\ ctxDone = FALSE
    /\ NUIdle
    /\ RSIdle
    /\ THIdle
    /\ DPIdle
    /\ RNIdle
    /\ NTIdle
    /\ DFIdle
    /\ MDIdle
    /\ RCIdle
    /\ VFIdle
    /\ RVIdle
    /\ CKIdle
    /\ FNIdle
    /\ CYIdle
    /\ GDIdle
    /\ CWIdle
\* BuildCatalogURL, client.Get, ParseCatalog and loadHistory: any of them
\* failing returns nil and the error
DiscoverFetch ==
    /\ pfPc = "fetch"
    /\ \E fetched \in BOOLEAN :
         IF ctxDone \/ ~fetched
         THEN /\ pfPc' = "returned"
              /\ pfErr' = "error"
              /\ UNCHANGED pfI
         ELSE /\ pfPc' = "loop"
              /\ pfI' = 1
              /\ UNCHANGED pfErr
    /\ UNCHANGED <<pfCatalog, pfHistoryLines, pfSearchKeyword, pfExcludeKeywords, pfTargets>>
    /\ UNCHANGED <<nuVars, rsVars, ctxDone, thVars, dpVars, rnVars, ntVars, dfVars, mdVars, rcVars, vfVars,
                   rvVars, ckVars, fnVars, cyVars, gdVars, cwVars>>

\* one turn of the range loop over candidateThreads
DiscoverThread ==
    /\ pfPc = "loop"
    /\ pfI <= Len(pfCatalog)
    /\ pfTargets' = IF keepThread(pfCatalog[pfI], loadHistory(pfHistoryLines),
                                  pfSearchKeyword, pfExcludeKeywords)
                    THEN Append(pfTargets, pfCatalog[pfI])
                    ELSE pfTargets
    /\ pfI' = pfI + 1
    /\ UNCHANGED <<pfCatalog, pfHistoryLines, pfSearchKeyword, pfExcludeKeywords, pfPc, pfErr>>
    /\ UNCHANGED <<nuVars, rsVars, ctxDone, thVars, dpVars, rnVars, ntVars, dfVars, mdVars, rcVars, vfVars,
                   rvVars, ckVars, fnVars, cyVars, gdVars, cwVars>>

\* return targetThreads, nil
DiscoverReturn ==
    /\ pfPc = "loop"
    /\ pfI > Len(pfCatalog)
    /\ pfPc' = "returned"
    /\ pfErr' = "nil"
    /\ UNCHANGED <<pfCatalog, pfHistoryLines, pfSearchKeyword, pfExcludeKeywords, pfI,
                   pfTargets>>
    /\ UNCHANGED <<nuVars, rsVars, ctxDone, thVars, dpVars, rnVars, ntVars, dfVars, mdVars, rcVars, vfVars,
                   rvVars, ckVars, fnVars, cyVars, gdVars, cwVars>>

NextDiscover ==
    \/ Cancel
    \/ DiscoverFetch
    \/ DiscoverThread
    \/ DiscoverReturn

SpecDiscover == InitDiscover /\ [][NextDiscover]_vars

\* C22: a discovery pass that succeeds returns, in catalog order, exactly
\* the catalog threads whose ID is no line of the history, whose title holds
\* the search keyword (or the keyword is empty) and whose title holds none
\* of the exclude keywords
DiscoveryExact ==
    (pfPc = "returned" /\ pfErr = "nil") =>
        pfTargets =
          SelectSeq(pfCatalog,
                    LAMBDA th :
                      /\ \A n \in 1..Len(pfHistoryLines) : pfHistoryLines[n] # th.ID
                      /\ \/ pfSearchKeyword = <<>>
                         \/ \E a, b \in 0..Len(th.Title) :
                              SubSeq(th.Title, a + 1, b) = pfSearchKeyword
                      /\ \A k \in 1..Len(pfExcludeKeywords) :
                           \A a, b \in 0..Len(th.Title) :
                             SubSeq(th.Title, a + 1, b) # pfExcludeKeywords[k])

\* a catalog of two threads of which the second alone is returned: the first
\* matches the keyword but holds the second exclude keyword
DiscoveryExactWitness ==
    /\ pfPc = "returned"
    /\ pfErr = "nil"
    /\ Len(pfCatalog) = 2
    /\ pfSearchKeyword = <<"a">>
    /\ Len(pfExcludeKeywords) = 2
    /\ pfCatalog[1].Title = <<"b", "a">>
    /\ pfTargets = <<pfCatalog[2]>>
    /\ pfHistoryLines = <<>>

\* C23: when ArchiveSingleThread has archived the thread and returned nil,
\* the snapshot has been persisted and the thread's ID is in the history
\* file
ArchivedThreadInHistory ==
    (wPc = "returned" /\ outcome = "archived") =>
        (snapshotFile.exists /\ TheThread \in historyFile)

(***************************************************************************)
(* SpecReconcile: the markup step of ArchiveSingleThread                  *)
(* (internal/core/thread_archiver.go) and the deleted-post functions of    *)
(* internal/core/incremental.go, over the successive archives of one       *)
(* thread.  A post fragment is known by its post number.                   *)
(***************************************************************************)
\* largest post number of the thread
MaxPosts == 3
\* largest media count of the thread page
MaxPageMedia == 2

\* ReconstructHTML of a page holding these posts
Render(posts) == [exists |-> TRUE, posts |-> posts, deleted |-> {}, section |-> FALSE]

\* extractResNumbers: every post number found anywhere in the markup
extractResNumbers(html) == html.posts \cup html.deleted

\* extractPostsHTML: the fragments of html that carry one of resNumbers
extractPostsHTML(html, resNumbers) == extractResNumbers(html) \cap resNumbers

\* the numbers detectAndExtractDeletedContent logs as deleted
deletedResNumbers(oldHTML, newHTML) ==
    extractResNumbers(oldHTML) \ extractResNumbers(newHTML)

\* detectAndExtractDeletedContent: the fragments of the deleted numbers,
\* taken from oldHTML ({} is the empty string)
detectAndExtractDeletedContent(oldHTML, newHTML) ==
    IF deletedResNumbers(oldHTML, newHTML) = {} THEN {}
    ELSE extractPostsHTML(oldHTML, deletedResNumbers(oldHTML, newHTML))

\* mutant: the deleted-posts section is written even when it is empty
mergeDeletedPostsAlwaysSection(newHTML, deletedPostsHTML) ==
    [newHTML EXCEPT !.deleted = @ \cup deletedPostsHTML, !.section = TRUE]
\* mergeDeletedPostsIntoHTML: newHTML itself when nothing was deleted, else
\* newHTML with the marked fragments in a deleted-posts section before </body>
mergeDeletedPostsIntoHTML(newHTML, deletedPostsHTML) ==
    IF deletedPostsHTML = {} THEN newHTML
    ELSE [newHTML EXCEPT !.deleted = @ \cup deletedPostsHTML, !.section = TRUE]

\* which way ArchiveSingleThread builds fullArchiveHTML
fullArchiveBranch(snapshot, existingFull) ==
    IF snapshot.exists /\ snapshot.LastMediaCount > 0
    THEN IF existingFull.exists THEN "merged" ELSE "nofull"
    ELSE "first"

\* fullArchiveHTML: the merge with the deleted posts of the existing
\* archive_full.html when the snapshot has a media count above 0 and the
\* file can be read, the reconstructed markup otherwise
fullArchiveHTML(snapshot, existingFull, htmlContent, reconstructedHTML) ==
    IF fullArchiveBranch(snapshot, existingFull) = "merged"
    THEN mergeDeletedPostsIntoHTML(reconstructedHTML,
             detectAndExtractDeletedContent(existingFull, htmlContent))
    ELSE reconstructedHTML

\* mutant: index.htm is written from the full markup
indexContentFull(reconstructedHTML, fullHTML) == fullHTML
\* what os.WriteFile(htmlSavePath, ...) is given
indexContent(reconstructedHTML, fullHTML) == reconstructedHTML

InitReconcile ==
    /\ rcSnapshot = NoSnapshot
    /\ rcIndex = NoHTML
    /\ rcFull = NoHTML
    /\ rcPosts = {}
    /\ rcReported = {}
    /\ rcBranch = "none"
    /\ rcArchives = 0
    /\ ctxDone = FALSE
    /\ NUIdle
    /\ RSIdle
    /\ THIdle
    /\ DPIdle
    /\ RNIdle
    /\ NTIdle
    /\ DFIdle
    /\ MDIdle
    /\ PFIdle
    /\ VFIdle
    /\ RVIdle
    /\ CKIdle
    /\ FNIdle
    /\ CYIdle
    /\ GDIdle
    /\ CWIdle
\* one run of ArchiveSingleThread that passes NeedsUpdate, from the markup
\* step on: ReconstructHTML, the full markup, the write of index.htm (an
\* error return when it fails), the write of archive_full.html (a warning
\* when it fails) and the new snapshot
Archive ==
    /\ ~ctxDone
    /\ \E page \in (SUBSET (1..MaxPosts)) \ {{}}, currentMediaCount \in 0..MaxPageMedia,
          indexWritten \in BOOLEAN, fullWritten \in BOOLEAN :
         /\ NeedsUpdate(rcSnapshot, currentMediaCount)
         /\ LET reconstructedHTML == Render(page)
                full == fullArchiveHTML(rcSnapshot, rcFull, Render(page), reconstructedHTML)
                branch == fullArchiveBranch(rcSnapshot, rcFull)
            IN  IF ~indexWritten
                THEN /\ rcBranch' = "failed"
                     /\ UNCHANGED <<rcSnapshot, rcIndex, rcFull, rcPosts, rcReported,
                                    rcArchives>>
                ELSE /\ rcBranch' = branch
                     /\ rcReported' = IF branch = "merged"
                                      THEN deletedResNumbers(rcFull, Render(page))
                                      ELSE {}
                     /\ rcIndex' = indexContent(reconstructedHTML, full)
                     /\ rcFull' = IF fullWritten THEN full ELSE rcFull
                     /\ rcSnapshot' = ThreadSnapshot(currentMediaCount, FALSE)
                     /\ rcPosts' = page
                     /\ rcArchives' = rcArchives + 1
    /\ UNCHANGED <<nuVars, rsVars, ctxDone, thVars, dpVars, rnVars, ntVars, dfVars, mdVars,
                   pfVars, vfVars, rvVars, ckVars, fnVars, cyVars, gdVars, cwVars>>

NextReconcile ==
    \/ Cancel
    \/ Archive

SpecReconcile == InitReconcile /\ [][NextReconcile]_vars

\* an archive has just gone through (index.htm was written)
Archived == rcArchives' = rcArchives + 1

\* C24: an archive that finds an archive_full.html reports as deleted
\* exactly the post numbers of that file that the current page lacks, and
\* the archive_full.html it writes holds the old fragment of each of them
\* together with every fragment of the current page
ReconcilerReportsDeleted ==
    [][(Archived /\ rcFull.exists) =>
         /\ rcReported' = extractResNumbers(rcFull) \ rcPosts'
         /\ \/ rcFull' = rcFull
            \/ /\ rcPosts' \subseteq rcFull'.posts
               /\ (extractResNumbers(rcFull) \ rcPosts') \subseteq rcFull'.deleted]_vars

\* C25: after every archive index.htm is the clean rendering of the page
\* just archived: the page's posts, no deleted-posts section and no
\* fragment of a post the page lacks, whatever archive_full.html holds
IndexIsLatestClean ==
    rcIndex.exists =>
        /\ rcIndex = Render(rcPosts)
        /\ ~rcIndex.section
        /\ rcIndex.deleted = {}
        /\ extractResNumbers(rcIndex) \subseteq rcPosts

\* archive_full.html carries a deleted post in its section and index.htm
\* does not
IndexIsLatestCleanWitness ==
    /\ rcBranch = "merged"
    /\ rcFull.section
    /\ rcFull.deleted # {}
    /\ rcIndex.exists
    /\ rcIndex.deleted = {}
    /\ rcFull.deleted \cap extractResNumbers(rcIndex) = {}

FullArchiveNeverShrinks ==
    [][(rcFull.exists /\ rcFull'.exists) =>
         extractResNumbers(rcFull) \subseteq extractResNumbers(rcFull')]_vars

(***************************************************************************)
(* SpecVerify: verifyTask (internal/core/verification.go) over the threads *)
(* of the task's history file.  Times are hours before the run.            *)
(***************************************************************************)
\* most zero-byte files in one directory
MaxZeroFiles == 1
\* lastVerified of a thread the verification history does not hold
NeverVerified == -1
\* the ages of the last verification tried, in hours
VerifiedHoursAgo == {NeverVerified, 0, 23, 24, 48}
FreshnessHours == 24

ThreadStates ==
    [lastVerified : VerifiedHoursAgo, dir : BOOLEAN, index : BOOLEAN,
     zeroTop : 0..MaxZeroFiles, zeroMedia : 0..MaxZeroFiles]

\* the block under `if !force`: "skip" for a thread verified within the
\* last 24 hours, "failed" for one verified earlier (TotalFailed goes up),
\* "continue" for a thread never verified, and "examine" with force on
freshnessBlock(force, lastVerified) ==
    IF force THEN "examine"
    ELSE IF lastVerified # NeverVerified
         THEN IF lastVerified < FreshnessHours THEN "skip" ELSE "failed"
         ELSE "continue"

\* the scan for zero-byte files: os.ReadDir of the thread directory, the
\* entries that are directories (img, thumb, css) passed over
scannedZeroFiles(thread) == thread.zeroTop

Bump(result, field) == [result EXCEPT ![field] = @ + 1]

InitVerify ==
    /\ vfForce \in BOOLEAN
    /\ vfRepair \in BOOLEAN
    /\ vfThread \in [VerifyThreads -> ThreadStates]
    \* without a directory there is nothing in it
    /\ \A t \in VerifyThreads :
         ~vfThread[t].dir =>
            (~vfThread[t].index /\ vfThread[t].zeroTop = 0 /\ vfThread[t].zeroMedia = 0)
    /\ vfPending = VerifyThreads
    /\ vfResult = NoResult
    /\ vfSkipped = {}
    /\ vfScanned = {}
    /\ vfDetected = [t \in VerifyThreads |-> 0]
    /\ vfRemoved = [t \in VerifyThreads |-> 0]
    /\ vfRefreshed = {}
    /\ vfPc = "loop"
    /\ ctxDone = FALSE
    /\ NUIdle
    /\ RSIdle
    /\ THIdle
    /\ DPIdle
    /\ RNIdle
    /\ NTIdle
    /\ DFIdle
    /\ MDIdle
    /\ PFIdle
    /\ RCIdle
    /\ RVIdle
    /\ CKIdle
    /\ FNIdle
    /\ CYIdle
    /\ GDIdle
    /\ CWIdle
\* one turn of the range loop over completedHistory (a map: any order)
VerifyThread(t) ==
    /\ vfPc = "loop"
    /\ t \in vfPending
    /\ ~ctxDone
    /\ vfPending' = vfPending \ {t}
    /\ LET th == vfThread[t]
           block == freshnessBlock(vfForce, th.lastVerified)
       IN  IF block # "examine"
           THEN /\ vfSkipped' = vfSkipped \cup {t}
                /\ vfResult' = IF block = "failed" THEN Bump(vfResult, "TotalFailed")
                               ELSE vfResult
                /\ UNCHANGED <<vfScanned, vfDetected, vfRemoved, vfRefreshed>>
           ELSE IF ~th.dir
           THEN /\ vfResult' = IF vfRepair
                               THEN Bump(Bump(vfResult, "TotalMissing"), "TotalFailed")
                               ELSE Bump(vfResult, "TotalMissing")
                /\ UNCHANGED <<vfSkipped, vfScanned, vfDetected, vfRemoved, vfRefreshed>>
           ELSE IF ~th.index
           THEN /\ vfResult' = Bump(vfResult, "TotalMissing")
                /\ UNCHANGED <<vfSkipped, vfScanned, vfDetected, vfRemoved, vfRefreshed>>
           ELSE LET missingCount == scannedZeroFiles(th)
                IN  /\ vfScanned' = vfScanned \cup {t}
                    /\ vfDetected' = [vfDetected EXCEPT ![t] = missingCount]
                    /\ vfRemoved' = [vfRemoved EXCEPT ![t] = IF vfRepair THEN missingCount
                                                               ELSE 0]
                    /\ vfResult' = IF missingCount > 0
                                   THEN Bump(vfResult, "TotalMissing") ELSE vfResult
                    /\ vfRefreshed' = IF missingCount > 0 THEN vfRefreshed
                                      ELSE vfRefreshed \cup {t}
                    /\ UNCHANGED vfSkipped
    /\ UNCHANGED <<vfForce, vfRepair, vfThread, vfPc>>
    /\ UNCHANGED <<nuVars, rsVars, ctxDone, thVars, dpVars, rnVars, ntVars, dfVars, mdVars,
                   pfVars, rcVars, rvVars, ckVars, fnVars, cyVars, gdVars, cwVars>>

\* the loop ends, or its ctx.Done() test returns ctx.Err()
VerifyReturn ==
    /\ vfPc = "loop"
    /\ vfPending = {} \/ ctxDone
    /\ vfPc' = "returned"
    /\ UNCHANGED <<vfForce, vfRepair, vfThread, vfPending, vfResult, vfSkipped, vfScanned,
                   vfDetected, vfRemoved, vfRefreshed>>
    /\ UNCHANGED <<nuVars, rsVars, ctxDone, thVars, dpVars, rnVars, ntVars, dfVars, mdVars,
                   pfVars, rcVars, rvVars, ckVars, fnVars, cyVars, gdVars, cwVars>>

NextVerify ==
    \/ Cancel
    \/ \E t \in VerifyThreads : VerifyThread(t)
    \/ VerifyReturn

SpecVerify == InitVerify /\ [][NextVerify]_vars

\* the run went through every thread of the history
VerifyComplete == vfPc = "returned" /\ vfPending = {}

\* C28: a thread directory with a zero-byte file under its media
\* subdirectory makes the run's TotalMissing at least 1 (with force on, so
\* that no thread is passed over for freshness)
ZeroByteMediaCounted ==
    (/\ VerifyComplete
     /\ vfForce
     /\ \E t \in VerifyThreads : vfThread[t].dir /\ vfThread[t].zeroMedia > 0)
        => vfResult.TotalMissing >= 1

\* C29: in repair mode every zero-byte file the scan detects is removed and
\* is counted in TotalRepaired or TotalFailed
RepairCountsDetected ==
    (VerifyComplete /\ vfRepair) =>
        /\ \A t \in VerifyThreads : vfRemoved[t] = vfDetected[t]
        /\ \A t \in VerifyThreads :
             vfDetected[t] > 0 => vfResult.TotalRepaired + vfResult.TotalFailed >= 1

\* C30: a thread is passed over exactly when force is off and it was
\* verified less than 24 hours ago; every other thread is examined and
\* counted in TotalChecked, and one without a problem has its verification
\* time refreshed
SkipsExactlyFresh ==
    VerifyComplete =>
        LET fresh == {t \in VerifyThreads :
                        /\ ~vfForce
                        /\ vfThread[t].lastVerified # NeverVerified
                        /\ vfThread[t].lastVerified < 24}
        IN  /\ vfSkipped = fresh
            /\ vfResult.TotalChecked = Cardinality(VerifyThreads \ fresh)
            /\ \A t \in VerifyThreads \ fresh :
                 (vfThread[t].dir /\ vfThread[t].index /\ vfThread[t].zeroTop = 0
                    /\ vfThread[t].zeroMedia = 0) => t \in vfRefreshed

(***************************************************************************)
(* SpecRunVerification: RunVerification (internal/core/verification.go)    *)
(* over the tasks of the configuration, each verifyTask going through the  *)
(* threads of its history file.  Writes of the history file succeed.       *)
(***************************************************************************)
\* an entry of the verification history as hours before the run
historyAge(entry) ==
    IF entry = "none" THEN NeverVerified ELSE IF entry = "old" THEN 48 ELSE 0

\* loadVerificationHistory, and the empty map RunVerification takes when
\* it fails
loadVerificationHistory(file, readable) ==
    IF readable THEN file ELSE [t \in RVThreads |-> "none"]

\* the test at the head of the loop over cfg.Tasks
taskSelected(targetTaskName, task) == targetTaskName = 0 \/ task = targetTaskName

\* the save after the loop, reached whatever the verifyTask calls returned
persistUnlessError(anyError) == ~anyError
persistAfterTasks(anyError) == TRUE

InitRunVerification ==
    /\ rvTarget \in {0} \cup RVTasks
    /\ rvForce \in BOOLEAN
    /\ rvReadable \in BOOLEAN
    /\ rvUnreadable \in SUBSET RVTasks
    /\ rvProblem \in SUBSET RVThreads
    /\ rvFile \in {[t \in RVThreads |-> "none"], [t \in RVThreads |-> "old"]}
    /\ rvHistory = [t \in RVThreads |-> "none"]
    /\ rvI = 0
    /\ rvPending = {}
    /\ rvPc = "start"
    /\ rvErrs = {}
    /\ rvProcessed = {}
    /\ rvSaves = 0
    /\ rvRefreshed = {}
    /\ ctxDone = FALSE
    /\ NUIdle
    /\ RSIdle
    /\ THIdle
    /\ DPIdle
    /\ RNIdle
    /\ NTIdle
    /\ DFIdle
    /\ MDIdle
    /\ PFIdle
    /\ RCIdle
    /\ VFIdle
    /\ CKIdle
    /\ FNIdle
    /\ CYIdle
    /\ GDIdle
    /\ CWIdle
\* the history is loaded before the loop
RVStart ==
    /\ rvPc = "start"
    /\ rvHistory' = loadVerificationHistory(rvFile, rvReadable)
    /\ rvI' = 1
    /\ rvPc' = "loop"
    /\ UNCHANGED <<rvTarget, rvForce, rvReadable, rvUnreadable, rvProblem, rvFile, rvPending,
                   rvErrs, rvProcessed, rvSaves, rvRefreshed>>
    /\ UNCHANGED <<nuVars, rsVars, ctxDone, thVars, dpVars, rnVars, ntVars, dfVars, mdVars,
                   pfVars, rcVars, vfVars, ckVars, fnVars, cyVars, gdVars, cwVars>>

\* one turn of the loop over cfg.Tasks up to the thread loop of verifyTask:
\* a task not asked for is passed over, one whose history file cannot be
\* read returns its error at once
RVTask ==
    /\ rvPc = "loop"
    /\ rvI <= NumVerifyTasks
    /\ IF ~taskSelected(rvTarget, rvI)
       THEN /\ rvI' = rvI + 1
            /\ UNCHANGED <<rvPc, rvPending, rvErrs, rvProcessed>>
       ELSE IF rvI \in rvUnreadable
       THEN /\ rvI' = rvI + 1
            /\ rvErrs' = rvErrs \cup {rvI}
            /\ rvProcessed' = rvProcessed \cup {rvI}
            /\ UNCHANGED <<rvPc, rvPending>>
       ELSE /\ rvPc' = "task"
            /\ rvPending' = RVThreadsOf(rvI)
            /\ UNCHANGED <<rvI, rvErrs, rvProcessed>>
    /\ UNCHANGED <<rvTarget, rvForce, rvReadable, rvUnreadable, rvProblem, rvFile, rvHistory,
                   rvSaves, rvRefreshed>>
    /\ UNCHANGED <<nuVars, rsVars, ctxDone, thVars, dpVars, rnVars, ntVars, dfVars, mdVars,
                   pfVars, rcVars, vfVars, ckVars, fnVars, cyVars, gdVars, cwVars>>

\* one turn of the thread loop of verifyTask: a thread that gets past the
\* freshness block and shows no problem has its time set to now in the map
RVThread(t) ==
    /\ rvPc = "task"
    /\ t \in rvPending
    /\ ~ctxDone
    /\ rvPending' = rvPending \ {t}
    /\ IF freshnessBlock(rvForce, historyAge(rvHistory[t])) = "examine" /\ t \notin rvProblem
       THEN /\ rvHistory' = [rvHistory EXCEPT ![t] = "now"]
            /\ rvRefreshed' = rvRefreshed \cup {t}
       ELSE UNCHANGED <<rvHistory, rvRefreshed>>
    /\ UNCHANGED <<rvTarget, rvForce, rvReadable, rvUnreadable, rvProblem, rvFile, rvI, rvPc,
                   rvErrs, rvProcessed, rvSaves>>
    /\ UNCHANGED <<nuVars, rsVars, ctxDone, thVars, dpVars, rnVars, ntVars, dfVars, mdVars,
                   pfVars, rcVars, vfVars, ckVars, fnVars, cyVars, gdVars, cwVars>>

\* verifyTask returns: nil after the last thread, ctx.Err() from the
\* ctx.Done() test at the head of a turn; RunVerification logs the error and
\* goes on with the next task
RVTaskReturn ==
    /\ rvPc = "task"
    /\ rvPending = {} \/ ctxDone
    /\ rvErrs' = IF rvPending # {} THEN rvErrs \cup {rvI} ELSE rvErrs
    /\ rvProcessed' = rvProcessed \cup {rvI}
    /\ rvPending' = {}
    /\ rvI' = rvI + 1
    /\ rvPc' = "loop"
    /\ UNCHANGED <<rvTarget, rvForce, rvReadable, rvUnreadable, rvProblem, rvFile, rvHistory,
                   rvSaves, rvRefreshed>>
    /\ UNCHANGED <<nuVars, rsVars, ctxDone, thVars, dpVars, rnVars, ntVars, dfVars, mdVars,
                   pfVars, rcVars, vfVars, ckVars, fnVars, cyVars, gdVars, cwVars>>

\* after the loop: saveVerificationHistory writes the map, then the totals
\* are logged and RunVerification returns nil
RVSave ==
    /\ rvPc = "loop"
    /\ rvI > NumVerifyTasks
    /\ IF persistAfterTasks(rvErrs # {})
       THEN /\ rvFile' = rvHistory
            /\ rvSaves' = rvSaves + 1
       ELSE UNCHANGED <<rvFile, rvSaves>>
    /\ rvPc' = "returned"
    /\ UNCHANGED <<rvTarget, rvForce, rvReadable, rvUnreadable, rvProblem, rvHistory, rvI,
                   rvPending, rvErrs, rvProcessed, rvRefreshed>>
    /\ UNCHANGED <<nuVars, rsVars, ctxDone, thVars, dpVars, rnVars, ntVars, dfVars, mdVars,
                   pfVars, rcVars, vfVars, ckVars, fnVars, cyVars, gdVars, cwVars>>

NextRunVerification ==
    \/ Cancel
    \/ RVStart
    \/ RVTask
    \/ \E t \in RVThreads : RVThread(t)
    \/ RVTaskReturn
    \/ RVSave

SpecRunVerification == InitRunVerification /\ [][NextRunVerification]_vars

\* C31: RunVerification saves the verification history exactly once, at
\* its end, after every task asked for has been through verifyTask, also
\* when a verifyTask returned an error or the run was cancelled; the saved
\* map is the one in memory and holds every time a task set to now
HistorySavedOnceAtEnd ==
    /\ rvSaves <= 1
    /\ (rvSaves = 1) <=> (rvPc = "returned")
    /\ rvPc = "returned" =>
         /\ \A task \in RVTasks : taskSelected(rvTarget, task) => task \in rvProcessed
         /\ rvFile = rvHistory
         /\ \A t \in rvRefreshed : rvFile[t] = "now"

\* a run that returned with a task in error after an earlier task had
\* refreshed a thread, under cancellation or not
HistorySavedOnceWitness ==
    /\ rvPc = "returned"
    /\ rvSaves = 1
    /\ \E task \in rvErrs : \E t \in rvRefreshed : t[1] < task /\ rvFile[t] = "now"

(***************************************************************************)
(* SpecCookie: Client.SetCookie and Client.Get (internal/core/             *)
(* incremental.go) over the Client's cookie jar.  Strings are sequences of *)
(* characters; the jar is net/http/cookiejar without a public-suffix list, *)
(* for cookies with path "/" that are neither Secure nor expired, against  *)
(* servers that set no cookie themselves.                                  *)
(***************************************************************************)
\* most calls of SetCookie and Get in one run
MaxCookieCalls == 3

HasPrefix(s, prefix) == Len(s) >= Len(prefix) /\ SubSeq(s, 1, Len(prefix)) = prefix
HasSuffix(s, suffix) ==
    Len(s) >= Len(suffix) /\ SubSeq(s, Len(s) - Len(suffix) + 1, Len(s)) = suffix

\* the hosts "m.x", "i.x" and "http.y"
CookieHosts ==
    {<<"m", ".", "x">>, <<"i", ".", "x">>, <<"h", "t", "t", "p", ".", "y">>}

\* the domainURL arguments tried: each host bare, with "http://" and with
\* "https://" before it
DomainURLs ==
    UNION {{h, <<"h", "t", "t", "p", ":", "/", "/">> \o h,
            <<"h", "t", "t", "p", "s", ":", "/", "/">> \o h} : h \in CookieHosts}

\* the cookies tried: no Domain attribute, or Domain ".x"
Cookies == {[Name |-> "cxyl", Domain |-> dom] : dom \in {<<>>, <<".", "x">>}}

\* url.Parse of a string without path: scheme and host of "scheme://host",
\* and a URL with neither when there is no "://" (the text is its path)
urlParse(rawURL) ==
    IF HasPrefix(rawURL, <<"h", "t", "t", "p", "s", ":", "/", "/">>)
    THEN [Scheme |-> "https", Host |-> SubSeq(rawURL, 9, Len(rawURL))]
    ELSE IF HasPrefix(rawURL, <<"h", "t", "t", "p", ":", "/", "/">>)
    THEN [Scheme |-> "http", Host |-> SubSeq(rawURL, 8, Len(rawURL))]
    ELSE [Scheme |-> "", Host |-> <<>>]

\* the head of SetCookie: "https://" is put before a text that does not
\* begin with "http"
withScheme(domainURL) ==
    IF ~HasPrefix(domainURL, <<"h", "t", "t", "p">>)
    THEN <<"h", "t", "t", "p", "s", ":", "/", "/">> \o domainURL ELSE domainURL

\* Jar.SetCookies for one cookie: nothing is stored for a URL that is not
\* http or https, nor for a cookie whose Domain does not cover the URL's
\* host; a cookie without Domain is kept for that host only
jarSetCookies(jar, u, cookie) ==
    IF u.Scheme \notin {"http", "https"} THEN jar
    ELSE IF cookie.Domain = <<>>
    THEN jar \cup {[Name |-> cookie.Name, Domain |-> u.Host, HostOnly |-> TRUE]}
    ELSE LET domain == IF Head(cookie.Domain) = "." THEN Tail(cookie.Domain)
                       ELSE cookie.Domain
         IN  IF u.Host = domain \/ HasSuffix(u.Host, <<".">> \o domain)
             THEN jar \cup {[Name |-> cookie.Name, Domain |-> domain, HostOnly |-> FALSE]}
             ELSE jar

\* Jar.Cookies: the names of the cookies a request to the host carries
jarCookies(jar, host) ==
    {e.Name : e \in {e \in jar : IF e.HostOnly THEN host = e.Domain
                                 ELSE host = e.Domain \/ HasSuffix(host, <<".">> \o e.Domain)}}

\* the host a domainURL argument names
namedHost(domainURL) ==
    IF urlParse(domainURL).Scheme = "" THEN domainURL ELSE urlParse(domainURL).Host

InitCookie ==
    /\ ckJar = {}
    /\ ckSet = {}
    /\ ckCalls = 0
    /\ ckLast = NoGet
    /\ ctxDone = FALSE
    /\ NUIdle
    /\ RSIdle
    /\ THIdle
    /\ DPIdle
    /\ RNIdle
    /\ NTIdle
    /\ DFIdle
    /\ MDIdle
    /\ PFIdle
    /\ RCIdle
    /\ VFIdle
    /\ RVIdle
    /\ FNIdle
    /\ CYIdle
    /\ GDIdle
    /\ CWIdle
\* Client.SetCookie: url.Parse takes every text tried here, so nil is
\* returned
CallSetCookie(domainURL, cookie) ==
    /\ ckCalls < MaxCookieCalls
    /\ ckCalls' = ckCalls + 1
    /\ ckJar' = jarSetCookies(ckJar, urlParse(withScheme(domainURL)), cookie)
    /\ ckSet' = ckSet \cup {[host |-> namedHost(domainURL), Name |-> cookie.Name]}
    /\ UNCHANGED ckLast
    /\ UNCHANGED <<nuVars, rsVars, ctxDone, thVars, dpVars, rnVars, ntVars, dfVars, mdVars,
                   pfVars, rcVars, vfVars, rvVars, fnVars, cyVars, gdVars, cwVars>>

\* Client.Get of a URL on the host: with the context done the limiter's
\* Wait fails and nothing is sent; else the request carries the jar's
\* cookies for the host
CallGet(host, response) ==
    /\ ckCalls < MaxCookieCalls
    /\ ckCalls' = ckCalls + 1
    /\ ckLast' = [made |-> ~ctxDone, host |-> host,
                  cookies |-> IF ctxDone THEN {} ELSE jarCookies(ckJar, host),
                  setBefore |-> ckSet, response |-> response,
                  result |-> Get(ctxDone, response)]
    /\ UNCHANGED <<ckJar, ckSet>>
    /\ UNCHANGED <<nuVars, rsVars, ctxDone, thVars, dpVars, rnVars, ntVars, dfVars, mdVars,
                   pfVars, rcVars, vfVars, rvVars, fnVars, cyVars, gdVars, cwVars>>

NextCookie ==
    \/ Cancel
    \/ \E domainURL \in DomainURLs : \E cookie \in Cookies : CallSetCookie(domainURL, cookie)
    \/ \E host \in CookieHosts :
         \E response \in {[transport |-> "ok", status |-> st] : st \in {StatusOK, 404}} :
            CallGet(host, response)

SpecCookie == InitCookie /\ [][NextCookie]_vars

\* C32: a Get that sends a request to a host carries every cookie that an
\* earlier SetCookie, returning nil, was given for that host, and returns
\* the body when the answer is a 200
CookieSentAfterSet ==
    ckLast.made =>
        /\ \A set \in ckLast.setBefore :
             set.host = ckLast.host => set.Name \in ckLast.cookies
        /\ ckLast.response.status = StatusOK => ckLast.result.body

(***************************************************************************)
(* SpecFileName: the file name of one media item, as downloadMediaFiles    *)
(* saves it in one run and as handleResumeLogic looks for it in the next   *)
(* (internal/core/thread_archiver.go).  A format is a sequence of          *)
(* placeholders and single characters, a name a sequence of characters.    *)
(***************************************************************************)
\* longest filename_format tried, in placeholders and characters
MaxFormatLen == 3

RECURSIVE SeqsOver(_, _)
SeqsOver(S, n) ==
    IF n = 0 THEN {<<>>}
    ELSE SeqsOver(S, n - 1) \cup {Append(q, x) : q \in SeqsOver(S, n - 1), x \in S}

\* filepath.Ext: from the last dot on, empty without a dot
Ext(name) ==
    LET dots == {i \in 1..Len(name) : name[i] = "."}
    IN  IF dots = {} THEN <<>>
        ELSE SubSeq(name, CHOOSE i \in dots : \A j \in dots : j <= i, Len(name))

TrimSuffix(s, suffix) ==
    IF HasSuffix(s, suffix) THEN SubSeq(s, 1, Len(s) - Len(suffix)) ELSE s
TrimPrefix(s, prefix) ==
    IF HasPrefix(s, prefix) THEN SubSeq(s, Len(prefix) + 1, Len(s)) ELSE s

\* SanitizeFilename: each character a file name cannot hold becomes its
\* full-width form (written here by its code point)
SanitizeFilename(name) ==
    LET wide == [c \in {"/", "\\", ":", "*", "?", "\"", "<", ">", "|"} |->
                   CASE c = "/" -> "U+FF0F" [] c = "\\" -> "U+FF3C" [] c = ":" -> "U+FF1A"
                     [] c = "*" -> "U+FF0A" [] c = "?" -> "U+FF1F" [] c = "\"" -> "U+201D"
                     [] c = "<" -> "U+FF1C" [] c = ">" -> "U+FF1E" [] c = "|" -> "U+FF5C"]
    IN  [i \in 1..Len(name) |-> IF name[i] \in DOMAIN wide THEN wide[name[i]] ELSE name[i]]

\* strings.Replacer.Replace over a format: a placeholder becomes its value,
\* every other character stays
RECURSIVE Replace(_, _)
Replace(format, values) ==
    IF format = <<>> THEN <<>>
    ELSE (IF Head(format) \in DOMAIN values THEN values[Head(format)] ELSE <<Head(format)>>)
         \o Replace(Tail(format), values)

\* generateFileName: [name, err]
generateFileName(format, thread, media) ==
    IF format = <<>>
    THEN IF media.OriginalFilename = <<>> THEN [name |-> <<>>, err |-> TRUE]
         ELSE [name |-> media.OriginalFilename, err |-> FALSE]
    ELSE LET year == IF thread.year = <<>> THEN <<"0", "0", "0", "0">> ELSE thread.year
             threadID == IF thread.ID = <<>>
                         THEN <<"u", "n", "k", "n", "o", "w", "n">> ELSE thread.ID
             resNumber == <<<<"0", "1", "2", "3", "4", "5", "6", "7", "8", "9">>[
                                media.ResNumber + 1]>>
             trimmed == TrimSuffix(media.OriginalFilename, Ext(media.OriginalFilename))
             originalFilenameWithoutExt ==
                 IF trimmed = <<>> THEN <<"f", "i", "l", "e">> ELSE trimmed
             dotless == TrimPrefix(Ext(media.OriginalFilename), <<".">>)
             ext == IF dotless = <<>> THEN <<"b", "i", "n">> ELSE dotless
             result ==
                 Replace(format,
                         [ph \in {"{year}", "{thread_id}", "{res_number}",
                                  "{original_filename}", "{ext}"} |->
                            CASE ph = "{year}" -> year
                              [] ph = "{thread_id}" -> threadID
                              [] ph = "{res_number}" -> resNumber
                              [] ph = "{original_filename}" ->
                                     SanitizeFilename(originalFilenameWithoutExt)
                              [] ph = "{ext}" -> ext])
         IN  [name |-> IF result = <<>> THEN media.OriginalFilename ELSE result,
              err |-> FALSE]

\* the name downloadMediaFiles saves the item under: the generated one,
\* else the original file name, else the base of the URL
saveFileName(format, thread, media) ==
    LET generated == generateFileName(format, thread, media)
    IN  IF ~generated.err /\ generated.name # <<>> THEN generated.name
        ELSE IF media.OriginalFilename # <<>> THEN media.OriginalFilename
        ELSE media.URLBase

\* the name handleResumeLogic looks for: generated with the empty format
\* and an empty ThreadInfo
resumeFileName(media) ==
    generateFileName(<<>>, [ID |-> <<>>, year |-> <<>>], media)

InitFileName ==
    /\ fnFormat \in SeqsOver({"{thread_id}", "{res_number}", "{original_filename}", "{ext}",
                              "{year}", "."}, MaxFormatLen)
    \* ParseCatalog gives a thread a non-empty ID and the time of the parse,
    \* ExtractMediaFiles gives an item the base of its URL as file name and
    \* ResNumber 0
    /\ fnThread \in {[ID |-> id, year |-> <<"2", "0", "2", "6">>] : id \in {<<"7">>, <<"8">>}}
    /\ fnMedia \in {[OriginalFilename |-> name, ResNumber |-> 0, URLBase |-> name] :
                       name \in {<<"1", ".", "j">>, <<"2", ".", "p">>}}
    /\ fnPc = "download"
    /\ fnSavedAs = <<>>
    /\ fnCheckedAs = <<>>
    /\ fnPending = FALSE
    /\ ctxDone = FALSE
    /\ NUIdle
    /\ RSIdle
    /\ THIdle
    /\ DPIdle
    /\ RNIdle
    /\ NTIdle
    /\ DFIdle
    /\ MDIdle
    /\ PFIdle
    /\ RCIdle
    /\ VFIdle
    /\ RVIdle
    /\ CKIdle
    /\ CYIdle
    /\ GDIdle
    /\ CWIdle
\* the first run: downloadMediaFiles downloads the item and saves it with
\* non-zero size
FNDownload ==
    /\ fnPc = "download"
    /\ fnSavedAs' = saveFileName(fnFormat, fnThread, fnMedia)
    /\ fnPc' = "resume"
    /\ UNCHANGED <<fnFormat, fnThread, fnMedia, fnCheckedAs, fnPending>>
    /\ UNCHANGED <<nuVars, rsVars, ctxDone, thVars, dpVars, rnVars, ntVars, dfVars, mdVars,
                   pfVars, rcVars, vfVars, rvVars, ckVars, cyVars, gdVars, cwVars>>

\* the next run: handleResumeLogic looks for the item on disk; a name that
\* cannot be generated, or no file of that name, puts it on the download
\* list
FNResume ==
    /\ fnPc = "resume"
    /\ LET checked == resumeFileName(fnMedia)
       IN  /\ fnCheckedAs' = checked.name
           /\ fnPending' = (checked.err \/ checked.name # fnSavedAs)
    /\ fnPc' = "done"
    /\ UNCHANGED <<fnFormat, fnThread, fnMedia, fnSavedAs>>
    /\ UNCHANGED <<nuVars, rsVars, ctxDone, thVars, dpVars, rnVars, ntVars, dfVars, mdVars,
                   pfVars, rcVars, vfVars, rvVars, ckVars, cyVars, gdVars, cwVars>>

NextFileName ==
    \/ Cancel
    \/ FNDownload
    \/ FNResume

SpecFileName == InitFileName /\ [][NextFileName]_vars

\* C34: for every filename_format the name handleResumeLogic looks for is
\* the name downloadMediaFiles saved the item under, and the saved item is
\* not put on the download list again
SavedNameIsCheckedName ==
    fnPc = "done" => (fnCheckedAs = fnSavedAs /\ ~fnPending)

(***************************************************************************)
(* SpecDirectory: the directory ArchiveSingleThread works in, cycle after  *)
(* cycle, for one thread of the catalog (thread_archiver.go 63-79 and      *)
(* 372-415, futaba_adapter.go 94-156).  ParseCatalog builds the ThreadInfo *)
(* anew in every cycle and stamps it with the time of parsing.             *)
(***************************************************************************)

\* longest directory_format tried, in placeholders and characters
MaxDirFormatLen == 2

\* the days the clock passes through: a year's last day and the two after it
Calendar ==
    <<[Year |-> 2025, Month |-> 12, Day |-> 31],
      [Year |-> 2026, Month |-> 1, Day |-> 1],
      [Year |-> 2026, Month |-> 1, Day |-> 2]>>

\* time.Time{}: January 1 of year 1
ZeroDate == [Year |-> 1, Month |-> 1, Day |-> 1]

\* strconv.Itoa for n >= 0
RECURSIVE Itoa(_)
Itoa(n) ==
    LET digit == <<"0", "1", "2", "3", "4", "5", "6", "7", "8", "9">>[(n % 10) + 1]
    IN  IF n < 10 THEN <<digit>> ELSE Itoa(n \div 10) \o <<digit>>

\* fmt.Sprintf("%02d", n) for n >= 0
Sprintf02d(n) == IF n < 10 THEN <<"0">> \o Itoa(n) ELSE Itoa(n)

\* filepath.Clean over a path of names and separators: one separator
\* between names, none at the end
RECURSIVE Collapse(_)
Collapse(path) ==
    IF Len(path) <= 1 THEN path
    ELSE IF path[1] = "/" /\ path[2] = "/" THEN Collapse(Tail(path))
    ELSE <<path[1]>> \o Collapse(Tail(path))

Clean(path) ==
    LET c == Collapse(path)
    IN  IF Len(c) > 1 /\ c[Len(c)] = "/" THEN SubSeq(c, 1, Len(c) - 1) ELSE c

\* filepath.Join(rootDir, result)
Join(rootDir, result) == Clean(rootDir \o <<"/">> \o result)

\* task.SaveRootDirectory
SaveRootDirectory == <<"r">>

\* generateDirectoryPath (its error is always nil)
generateDirectoryPath(rootDir, format, thread) ==
    LET used == IF format = <<>> THEN <<"{thread_id}">> ELSE format
        isZero == thread.Date = ZeroDate
        year == IF isZero THEN <<"0", "0", "0", "0">> ELSE Itoa(thread.Date.Year)
        month == IF isZero THEN <<"0", "0">> ELSE Sprintf02d(thread.Date.Month)
        day == IF isZero THEN <<"0", "0">> ELSE Sprintf02d(thread.Date.Day)
        threadID == IF thread.ID = <<>>
                    THEN <<"u", "n", "k", "n", "o", "w", "n", "_", "t", "h", "r", "e", "a", "d">>
                    ELSE thread.ID
        threadTitle == IF thread.Title = <<>>
                       THEN <<"U", "n", "t", "i", "t", "l", "e", "d">> ELSE thread.Title
        result ==
            Replace(used,
                    [ph \in {"{year}", "{month}", "{day}", "{thread_id}",
                             "{thread_title_safe}"} |->
                       CASE ph = "{year}" -> year
                         [] ph = "{month}" -> month
                         [] ph = "{day}" -> day
                         [] ph = "{thread_id}" -> threadID
                         [] ph = "{thread_title_safe}" -> SanitizeFilename(threadTitle)])
    IN  Join(rootDir, IF result = <<>> THEN threadID ELSE result)

\* one entry of ParseCatalog's result: the thread of the catalog with the
\* time of parsing as its date
catalogThread(listed, today) ==
    [ID |-> listed.ID, Title |-> listed.Title, Date |-> Calendar[today]]

InitDirectory ==
    /\ gdFormat \in SeqsOver({"{year}", "{month}", "{day}", "{thread_id}",
                              "{thread_title_safe}", "/", "-"}, MaxDirFormatLen)
    /\ gdThread \in {[ID |-> <<"7">>, Title |-> <<"T", "7">>],
                     [ID |-> <<"8">>, Title |-> <<"a", "/", "b">>]}
    /\ gdNow \in 1..Len(Calendar)
    /\ gdCycle = 0
    /\ gdDir = NoDir
    /\ gdPrevDir = NoDir
    /\ gdWritten = {}
    /\ gdLoaded = FALSE
    /\ ctxDone = FALSE
    /\ NUIdle
    /\ RSIdle
    /\ THIdle
    /\ DPIdle
    /\ RNIdle
    /\ NTIdle
    /\ DFIdle
    /\ MDIdle
    /\ PFIdle
    /\ RCIdle
    /\ VFIdle
    /\ RVIdle
    /\ CKIdle
    /\ FNIdle
    /\ CYIdle
    /\ CWIdle

\* midnight passes between two cycles
GDNextDay ==
    /\ gdNow < Len(Calendar)
    /\ gdNow' = gdNow + 1
    /\ UNCHANGED <<gdFormat, gdThread, gdCycle, gdDir, gdPrevDir, gdWritten, gdLoaded>>
    /\ UNCHANGED <<nuVars, rsVars, ctxDone, thVars, dpVars, rnVars, ntVars, dfVars, mdVars,
                   pfVars, rcVars, vfVars, rvVars, ckVars, fnVars, cyVars, cwVars>>

\* one cycle over the thread: the catalog is parsed, the directory is
\* computed, the snapshot is looked for in it, and the cycle's snapshot,
\* resume file and output are written into it
GDArchive ==
    /\ gdCycle < MaxCycles
    /\ LET thread == catalogThread(gdThread, gdNow)
           threadSavePath == generateDirectoryPath(SaveRootDirectory, gdFormat, thread)
       IN  /\ gdDir' = threadSavePath
           /\ gdPrevDir' = gdDir
           /\ gdLoaded' = (threadSavePath \in gdWritten)
           /\ gdWritten' = gdWritten \cup {threadSavePath}
    /\ gdCycle' = gdCycle + 1
    /\ UNCHANGED <<gdFormat, gdThread, gdNow>>
    /\ UNCHANGED <<nuVars, rsVars, ctxDone, thVars, dpVars, rnVars, ntVars, dfVars, mdVars,
                   pfVars, rcVars, vfVars, rvVars, ckVars, fnVars, cyVars, cwVars>>

NextDirectory == GDNextDay \/ GDArchive

SpecDirectory == InitDirectory /\ [][NextDirectory]_vars

\* C38: from the second cycle on, the directory computed for the thread is
\* the one of the cycle before, and the snapshot, resume file and output
\* written there are found in it
SaveDirectoryStable ==
    gdCycle >= 2 => (gdDir = gdPrevDir /\ gdLoaded)

(***************************************************************************)
(* SpecCycle: the cycles of one ExecuteTask (internal/core/task_runner.go) *)
(* with the thread workers of each: the catalog's links, ParseCatalog,     *)
(* the dispatch loop, threadWg.Wait() and the wait before the next pass.   *)
(***************************************************************************)
\* the thread IDs the links of a catalog page name
CatalogIDs == {"101", "102", "103"}

\* mutant: every link becomes a thread
ParseCatalogKeepingRepeats(links) == links

\* ParseCatalog over the links of the page, in order: a link whose ID was
\* seen before is passed over
RECURSIVE ParseCatalog(_)
ParseCatalog(links) ==
    IF links = <<>> THEN <<>>
    ELSE LET threads == ParseCatalog(SubSeq(links, 1, Len(links) - 1))
             id == links[Len(links)]
         IN  IF \E i \in 1..Len(threads) : threads[i] = id THEN threads
             ELSE Append(threads, id)

\* the workers inside ArchiveSingleThread
CyRunning == {i \in 1..Len(cyTargets) : cyWorker[i] = "running"}

InitCycle ==
    /\ cyWatch \in BOOLEAN
    /\ cySetting \in 0..MaxConcurrentSetting
    /\ cyTargets = <<>>
    /\ cyNext = 1
    /\ cyWorker = [i \in 1..MaxLinks |-> "pending"]
    /\ cySem = 0
    /\ cyWg = 0
    /\ cyPc = "disk"
    /\ cyCycle = 0
    /\ ctxDone = FALSE
    /\ NUIdle
    /\ RSIdle
    /\ THIdle
    /\ DPIdle
    /\ RNIdle
    /\ NTIdle
    /\ DFIdle
    /\ MDIdle
    /\ PFIdle
    /\ RCIdle
    /\ VFIdle
    /\ RVIdle
    /\ CKIdle
    /\ FNIdle
    /\ GDIdle
    /\ CWIdle
\* checkDiskSpace at the head of a pass: it returns nil
CyDiskCheck ==
    /\ cyPc = "disk"
    /\ cyPc' = IF checkDiskSpace(FALSE) = "nil" THEN "discover"
               ELSE IF cyWatch THEN "sleep" ELSE "disk"
    /\ UNCHANGED <<cyWatch, cySetting, cyTargets, cyNext, cyWorker, cySem, cyWg, cyCycle>>
    /\ UNCHANGED <<nuVars, rsVars, ctxDone, thVars, dpVars, rnVars, ntVars, dfVars, mdVars,
                   pfVars, rcVars, vfVars, rvVars, ckVars, fnVars, gdVars, cwVars>>

\* primaryFiltering: with the context done, or on a network error, the Get
\* of the catalog fails and the loop continues, in watch mode to the wait
\* at its head, in run-once mode straight to the next pass; else the
\* page's links are parsed and filtered by title and history
CyDiscover ==
    /\ cyPc = "discover"
    /\ cyCycle < MaxCycles \/ ctxDone
    /\ \E failed \in BOOLEAN, links \in SeqsOver(CatalogIDs, MaxLinks),
          kept \in SUBSET CatalogIDs :
         IF ctxDone \/ failed
         THEN /\ cyPc' = IF cyWatch THEN "sleep" ELSE "disk"
              /\ cyCycle' = IF ctxDone THEN cyCycle ELSE cyCycle + 1
              /\ UNCHANGED <<cyTargets, cyNext, cyWorker, cySem, cyWg>>
         ELSE LET targetThreads == SelectSeq(ParseCatalog(links), LAMBDA id : id \in kept)
              IN  /\ cyCycle' = cyCycle + 1
                  /\ cyTargets' = targetThreads
                  /\ cyNext' = 1
                  /\ cyWorker' = [i \in 1..MaxLinks |-> "pending"]
                  /\ cySem' = 0
                  /\ cyWg' = 0
                  /\ cyPc' = IF targetThreads # <<>> THEN "dispatch"
                             ELSE IF cyWatch THEN "sleep" ELSE "returned"
    /\ UNCHANGED <<cyWatch, cySetting>>
    /\ UNCHANGED <<nuVars, rsVars, ctxDone, thVars, dpVars, rnVars, ntVars, dfVars, mdVars,
                   pfVars, rcVars, vfVars, rvVars, ckVars, fnVars, gdVars, cwVars>>

\* the head of the dispatch loop: the end of the list or ctx.Done() leads
\* to threadWg.Wait(), else threadWg.Add(1)
CyDispatch ==
    /\ cyPc = "dispatch"
    /\ IF cyNext > Len(cyTargets) \/ ctxDone
       THEN cyPc' = "wait" /\ UNCHANGED cyWg
       ELSE cyPc' = "acquire" /\ cyWg' = cyWg + 1
    /\ UNCHANGED <<cyWatch, cySetting, cyTargets, cyNext, cyWorker, cySem, cyCycle>>
    /\ UNCHANGED <<nuVars, rsVars, ctxDone, thVars, dpVars, rnVars, ntVars, dfVars, mdVars,
                   pfVars, rcVars, vfVars, rvVars, ckVars, fnVars, gdVars, cwVars>>

\* threadSemaphore <- struct{}{} gets a slot and the goroutine of the
\* target starts
CyAcquire ==
    /\ cyPc = "acquire"
    /\ cySem < SemaphoreCapacity(cySetting, Len(cyTargets))
    /\ cySem' = cySem + 1
    /\ cyWorker' = [cyWorker EXCEPT ![cyNext] = "running"]
    /\ cyNext' = cyNext + 1
    /\ cyPc' = "dispatch"
    /\ UNCHANGED <<cyWatch, cySetting, cyTargets, cyWg, cyCycle>>
    /\ UNCHANGED <<nuVars, rsVars, ctxDone, thVars, dpVars, rnVars, ntVars, dfVars, mdVars,
                   pfVars, rcVars, vfVars, rvVars, ckVars, fnVars, gdVars, cwVars>>

\* ArchiveSingleThread returns in a worker: the slot is given back and
\* threadWg.Done() runs
CyWorkerReturn(i) ==
    /\ i \in CyRunning
    /\ cyWorker' = [cyWorker EXCEPT ![i] = "done"]
    /\ cySem' = cySem - 1
    /\ cyWg' = cyWg - 1
    /\ UNCHANGED <<cyWatch, cySetting, cyTargets, cyNext, cyPc, cyCycle>>
    /\ UNCHANGED <<nuVars, rsVars, ctxDone, thVars, dpVars, rnVars, ntVars, dfVars, mdVars,
                   pfVars, rcVars, vfVars, rvVars, ckVars, fnVars, gdVars, cwVars>>

\* threadWg.Wait() returns; run-once mode breaks out of the loop
CyWait ==
    /\ cyPc = "wait"
    /\ cyWg = 0
    /\ cyPc' = IF cyWatch THEN "sleep" ELSE "returned"
    /\ UNCHANGED <<cyWatch, cySetting, cyTargets, cyNext, cyWorker, cySem, cyWg, cyCycle>>
    /\ UNCHANGED <<nuVars, rsVars, ctxDone, thVars, dpVars, rnVars, ntVars, dfVars, mdVars,
                   pfVars, rcVars, vfVars, rvVars, ckVars, fnVars, gdVars, cwVars>>

\* the select of the watch loop: the interval passes, or, the context
\* being done, ctx.Done() is taken and the task returns
CySleep ==
    /\ cyPc = "sleep"
    /\ cyPc' = IF ctxDone THEN "returned" ELSE "disk"
    /\ UNCHANGED <<cyWatch, cySetting, cyTargets, cyNext, cyWorker, cySem, cyWg, cyCycle>>
    /\ UNCHANGED <<nuVars, rsVars, ctxDone, thVars, dpVars, rnVars, ntVars, dfVars, mdVars,
                   pfVars, rcVars, vfVars, rvVars, ckVars, fnVars, gdVars, cwVars>>

NextCycle ==
    \/ Cancel
    \/ CyDiskCheck
    \/ CyDiscover
    \/ CyDispatch
    \/ CyAcquire
    \/ \E i \in 1..MaxLinks : CyWorkerReturn(i)
    \/ CyWait
    \/ CySleep

SpecCycle == InitCycle /\ [][NextCycle]_vars

SpecCycleFair ==
    /\ SpecCycle
    /\ WF_vars(CyDiskCheck)
    /\ WF_vars(CyDiscover)
    /\ WF_vars(CyDispatch)
    /\ WF_vars(CyAcquire)
    /\ \A i \in 1..MaxLinks : WF_vars(CyWorkerReturn(i))
    /\ WF_vars(CyWait)
    /\ WF_vars(CySleep)

\* C36: once cancellation is raised the task returns, in watch mode and in
\* run-once mode, whatever step it was at
CancelledTaskReturns == ctxDone ~> (cyPc = "returned")

====
